---- MODULE Spec2Model ----
(***************************************************************************)
(* pigdo: parallel jigsaw download.  Model of the reassembly run: main()   *)
(* (src/pigdo.c) opens the output image, writes the glue bytes of the      *)
(* template and calls pfetch() (src/worker.c), which marks local copies,   *)
(* re-verifies an existing image, and then polls a table of file parts,    *)
(* handing waiting parts to worker threads until partsRemain() says stop;  *)
(* it ends with an MD5 check of the whole image.                           *)
(*                                                                         *)
(* Modelling decisions:                                                    *)
(*  - every operation that takes tableLock is one atomic step; steps that  *)
(*    touch only thread-local data are merged into the next such step;     *)
(*  - pthread_mutex_lock/unlock on the initialised mutex do not fail;      *)
(*  - countCompletedFiles() only feeds the progress line and is left out;  *)
(*  - MD5 is collision free on the modelled inputs: a digest is the        *)
(*    positional encoding of the hashed bytes;                             *)
(*  - part indices are 1-based here (files[1] is the C files[0]); the      *)
(*    cursor contiguousComplete keeps its C (0-based) value.               *)
(***************************************************************************)
EXTENDS Integers, Sequences, FiniteSets, TLC

\* ------------------------------------------------------------------ bounds
MaxWorkers == 2   \* largest -j value explored
MaxLog == 2       \* value at which the per-part count of ERROR results saturates

\* --------------------------------------------------------- commitStatus
NOT_STARTED == "NOT_STARTED"
ASSIGNED == "ASSIGNED"
IN_PROGRESS == "IN_PROGRESS"
COMPLETE == "COMPLETE"
ERROR == "ERROR"
FATAL_ERROR == "FATAL_ERROR"
LOCAL_COPY == "LOCAL_COPY"

commitStatus ==
  {NOT_STARTED, ASSIGNED, IN_PROGRESS, COMPLETE, ERROR, FATAL_ERROR, LOCAL_COPY}

\* ------------------------------------------------------------ image bytes
\* A byte of the image file: 0 is what allocation leaves behind, 1 and 2 are
\* the values the finished image is made of, 3 is a byte of a wrong file.
ZeroByte == 0
JunkByte == 3

\* The byte of the finished image at (0-based) offset o.
TargetByte(o) == 1 + (o % 2)

\* The finished image of n bytes.
TargetImage(n) == [k \in 1..n |-> TargetByte(k - 1)]

\* The len bytes of buffer buf that start at (0-based) offset off.
Slice(buf, off, len) == [k \in 1..len |-> buf[off + k]]

\* ------------------------------------------------------------------- MD5
RECURSIVE md5MemOneShot(_)
md5MemOneShot(buf) ==
  IF buf = << >> THEN 0
  ELSE (Head(buf) + 1) + 5 * md5MemOneShot(Tail(buf))

\* memcmp() of two digests: 0 when equal, otherwise the sign of the first
\* difference.
md5Cmp(a, b) == IF a = b THEN 0 ELSE IF a < b THEN -1 ELSE 1

\* Digest md5Fd() returns when fstat() or mmap() fails (all bytes 0xff).
md5FdFailed == -1

\* md5Fd() of a file whose content is img; ok is FALSE when fstat/mmap fail.
md5Fd(img, ok) == IF ok THEN md5MemOneShot(img) ELSE md5FdFailed

\* verifyChunkMD5(): does the buffer buf hash to the part's md5Sum?
verifyChunkMD5(buf, chunk) == md5Cmp(md5MemOneShot(buf), chunk.md5Sum) = 0

\* ------------------------------------------------------------- templates
\* One table entry for a matched file, as freadTemplateDesc() leaves it.
FileEntry(size, offset) ==
  [size |-> size, offset |-> offset,
   md5Sum |-> md5MemOneShot([k \in 1..size |-> TargetByte(offset + k - 1)]),
   status |-> NOT_STARTED]

DataEntry(size, offset) == [size |-> size, offset |-> offset]

\* The DESC tables explored, files already in the order main() sorts them
\* into (largest first).  ScenarioA is the "HELLO"+"WORLD" template.
ScenarioA ==
  [imageInfo |-> [size |-> 10, md5Sum |-> md5MemOneShot(TargetImage(10))],
   dataBlocks |-> << DataEntry(5, 0) >>,
   files |-> << FileEntry(5, 5) >>,
   existingFile |-> FALSE]

TwoFiles ==
  [imageInfo |-> [size |-> 3, md5Sum |-> md5MemOneShot(TargetImage(3))],
   dataBlocks |-> << >>,
   files |-> << FileEntry(2, 1), FileEntry(1, 0) >>,
   existingFile |-> FALSE]

ThreeFiles ==
  [imageInfo |-> [size |-> 5, md5Sum |-> md5MemOneShot(TargetImage(5))],
   dataBlocks |-> << DataEntry(1, 0) >>,
   files |-> << FileEntry(2, 1), FileEntry(1, 3), FileEntry(1, 4) >>,
   existingFile |-> FALSE]

\* ---------------------------------------------------------------- recipe
\* What the .jigdo data knows about the file with a part's MD5: known is
\* whether findFileByMD5() finds a record, localCopy whether findLocalCopy()
\* finds a verified copy in one of the server's local directories,
\* numMirrors the server's number of remote mirrors, localMatch the field
\* of the same name (-1 after parsing).
RecipeEntry(known, localCopy, numMirrors) ==
  [known |-> known, localCopy |-> localCopy, numMirrors |-> numMirrors,
   localMatch |-> -1]

Remote == RecipeEntry(TRUE, FALSE, 1)
Local == RecipeEntry(TRUE, TRUE, 1)
LocalOnly == RecipeEntry(TRUE, TRUE, 0)
NoSource == RecipeEntry(TRUE, FALSE, 0)
Missing == RecipeEntry(FALSE, FALSE, 0)

RecipeKinds == {Remote, Local, LocalOnly, NoSource, Missing}

\* The recipes explored for n parts: at most one part is not plainly
\* remote, or every part has a local copy.
Recipes(n) ==
  {r \in [1..n -> RecipeKinds] :
     \/ Cardinality({p \in 1..n : r[p] # Remote}) <= 1
     \/ \A p \in 1..n : r[p] = LocalOnly}

\* md5ToURI()/selectMirror(): "NULL" when the MD5 is not in the recipe,
\* "file" for the matched local directory, "net" for a remote mirror, and
\* "SIGFPE" for rand() % 0 when the server has no mirror at all.
md5ToURI(jig, p) ==
  IF ~jig[p].known THEN "NULL"
  ELSE IF jig[p].localMatch >= 0 THEN "file"
  ELSE IF jig[p].numMirrors = 0 THEN "SIGFPE"
  ELSE "net"

\* findLocalFiles(): marks the parts that have a local copy, stopping with
\* -1 at the first part the recipe does not know.
RECURSIVE findLocalFilesFrom(_, _, _, _)
findLocalFilesFrom(f, jig, i, count) ==
  IF i > Len(f) THEN [files |-> f, jigdo |-> jig, ret |-> count]
  ELSE IF ~jig[i].known THEN [files |-> f, jigdo |-> jig, ret |-> -1]
  ELSE IF jig[i].localCopy
       THEN findLocalFilesFrom([f EXCEPT ![i].status = LOCAL_COPY],
                               [jig EXCEPT ![i].localMatch = 0],
                               i + 1, count + 1)
       ELSE findLocalFilesFrom(f, jig, i + 1, count)

findLocalFiles(f, jig) == findLocalFilesFrom(f, jig, 1, 0)

\* ---------------------------------------------------------- part table
\* (int) of a C bool that was assigned x.
BoolToInt(x) == IF x # 0 THEN 1 ELSE 0

\* A faulty scan of partsRemain(): the cursor also moves past a part that
\* still has to be fetched.
RECURSIVE partsRemainFromAny(_, _, _)
partsRemainFromAny(f, i, bc) ==
  IF i >= Len(f) - 1 THEN [ret |-> 0, beginComplete |-> bc]
  ELSE IF f[i + 1].status = FATAL_ERROR
       THEN [ret |-> 1, beginComplete |-> bc]
  ELSE IF f[i + 1].status = COMPLETE
       THEN partsRemainFromAny(f, i + 1, i)
  ELSE [ret |-> 1, beginComplete |-> i + 1]

\* partsRemain(): the scan runs over the C indices *beginComplete .. count-2
\* and its result is held in a bool.  i and bc are C (0-based) indices.
RECURSIVE partsRemainFrom(_, _, _)
partsRemainFrom(f, i, bc) ==
  IF i >= Len(f) - 1 THEN [ret |-> BoolToInt(0), beginComplete |-> bc]
  ELSE IF f[i + 1].status = FATAL_ERROR
       THEN [ret |-> BoolToInt(-1), beginComplete |-> bc]
  ELSE IF f[i + 1].status = COMPLETE
       THEN partsRemainFrom(f, i + 1, i)
  ELSE [ret |-> BoolToInt(1), beginComplete |-> bc]

partsRemain(f, beginComplete) == partsRemainFrom(f, beginComplete, beginComplete)

\* A faulty isWaitingFileNoMutex(): a part that was handed out also waits.
isWaitingFileNoMutexAssigned(chunk) ==
  chunk.status \in {NOT_STARTED, ERROR, LOCAL_COPY, ASSIGNED}

\* A faulty isWaitingFileNoMutex(): a part a worker is fetching also waits.
isWaitingFileNoMutexInProgress(chunk) ==
  chunk.status \in {NOT_STARTED, ERROR, LOCAL_COPY, IN_PROGRESS}

isWaitingFileNoMutex(chunk) ==
  chunk.status \in {NOT_STARTED, ERROR, LOCAL_COPY}

\* A faulty scan of selectChunk(): a part in ERROR is passed over.
RECURSIVE selectChunkFromNoError(_, _)
selectChunkFromNoError(f, i) ==
  IF i <= Len(f) /\ f[i].status \notin {NOT_STARTED, LOCAL_COPY}
  THEN selectChunkFromNoError(f, i + 1) ELSE i

\* selectChunk(): the index the scan stops at, Len(f) + 1 when no part waits.
RECURSIVE selectChunkFrom(_, _)
selectChunkFrom(f, i) ==
  IF i <= Len(f) /\ ~isWaitingFileNoMutex(f[i])
  THEN selectChunkFrom(f, i + 1) ELSE i

\* A faulty selectChunk(): ASSIGNED is stored in every part that waits.
selectChunkAll(f, past) ==
  LET i == selectChunkFrom(f, 1) IN
  IF i = Len(f) + 1
  THEN [files |-> f, pastEnd |-> ASSIGNED, chunk |-> 0]
  ELSE [files |-> [k \in 1..Len(f) |->
                     IF isWaitingFileNoMutex(f[k])
                     THEN [f[k] EXCEPT !.status = ASSIGNED] ELSE f[k]],
        pastEnd |-> past, chunk |-> i]

\* selectChunk(): ASSIGNED is stored at the index the scan stopped at, also
\* when that index is one past the table (pastEnd stands for that memory);
\* the result is the part's index, 0 for NULL.
selectChunk(f, past) ==
  LET i == selectChunkFrom(f, 1) IN
  IF i = Len(f) + 1
  THEN [files |-> f, pastEnd |-> ASSIGNED, chunk |-> 0]
  ELSE [files |-> [f EXCEPT ![i].status = ASSIGNED], pastEnd |-> past,
        chunk |-> i]

\* A faulty verifyPartial(): the parts found locally are verified as well.
RECURSIVE verifyPartialFromLocal(_, _, _, _, _)
verifyPartialFromLocal(img, f, i, complete, failAt) ==
  IF i > Len(f) THEN [files |-> f, ret |-> complete]
  ELSE IF i = failAt THEN [files |-> f, ret |-> -1]
  ELSE IF verifyChunkMD5(Slice(img, f[i].offset, f[i].size), f[i])
       THEN verifyPartialFromLocal(img, [f EXCEPT ![i].status = COMPLETE],
                                   i + 1, complete + 1, failAt)
  ELSE verifyPartialFromLocal(img, f, i + 1, complete, failAt)

\* verifyPartial(): failAt is the part whose mmap() fails (0: none does).
RECURSIVE verifyPartialFrom(_, _, _, _, _)
verifyPartialFrom(img, f, i, complete, failAt) ==
  IF i > Len(f) THEN [files |-> f, ret |-> complete]
  ELSE IF f[i].status = LOCAL_COPY
       THEN verifyPartialFrom(img, f, i + 1, complete, failAt)
  ELSE IF i = failAt THEN [files |-> f, ret |-> -1]
  ELSE IF verifyChunkMD5(Slice(img, f[i].offset, f[i].size), f[i])
       THEN verifyPartialFrom(img, [f EXCEPT ![i].status = COMPLETE],
                              i + 1, complete + 1, failAt)
  ELSE verifyPartialFrom(img, f, i + 1, complete, failAt)

\* A faulty verifyPartial(): the earlier output is never looked at.
verifyPartialNothing(img, tbl, failAt) == [files |-> tbl.files, ret |-> 0]

verifyPartial(img, tbl, failAt) ==
  IF ~tbl.existingFile THEN [files |-> tbl.files, ret |-> 0]
  ELSE verifyPartialFrom(img, tbl.files, 1, 0, failAt)

\* ------------------------------------------------------------------ state
VARIABLES
  numWorkers,          \* pfetch(): the -j value
  table,               \* templateDescTable: imageInfo, dataBlocks, files, existingFile
  pastEnd,             \* the memory of files[numFiles].status, one past the table
  jigdo,               \* per part, the recipe's record for the part's MD5
  image,               \* content of the output file (its length is the file's)
  pc,                  \* where main()/pfetch() is
  slot,                \* pfetch(): loop variable i (1-based worker slot)
  contiguousComplete,  \* pfetch(): cursor handed to partsRemain (0-based)
  ret,                 \* pfetch(): return value
  fileChecksum,        \* pfetch(): result of the final md5Fd()
  exitCode,            \* exit status of the process once pc = "exited"
  workerState,         \* per slot: args.chunk, args.uri and the thread's position
  prior,               \* history: content of the output file before the run
  errCount,            \* history: per part, how often ERROR was stored (saturating)
  envFail,             \* history: a system call other than fetch() has failed
  fp,                  \* bytes of the .template file (or of the buffer) being read
  parsed,              \* what the function reading fp returned
  tpc,                 \* where the reading of fp is
  made,                \* history: what the bytes of fp were built from
  mapped,              \* pages of the output file the thread looked at has mapped
  synced,              \* pages of the output file msync() was asked to write back
  unlocked             \* history: a status was accessed without tableLock while a worker thread existed

vars ==
  << numWorkers, table, pastEnd, jigdo, image, pc, slot, contiguousComplete,
     ret, fileChecksum, exitCode, workerState, prior,
     errCount, envFail, fp, parsed, tpc, made, mapped, synced, unlocked >>

\* The variables of one mapping and of the status-dump signal.
mvars == << mapped, synced, unlocked >>

\* No mapping is followed and no signal has arrived.
NoMapping == mapped = {} /\ synced = {} /\ unlocked = FALSE

\* The variables of the template reader and of the functions looked at alone.
tvars == << fp, parsed, tpc, made, mapped, synced, unlocked >>

\* No template is being read: main() is past freadTemplateDesc().
NoTemplate ==
  /\ fp = << >> /\ parsed = "none" /\ tpc = "idle" /\ made = "none"
  /\ NoMapping

numFiles == Len(table.files)
Parts == 1..numFiles
Slots == 1..numWorkers

\* One slot of workerState with no thread: what calloc() leaves.
EmptySlot == [chunk |-> 0, pc |-> "idle", uri |-> "NULL", fetched |-> 0, ok |-> FALSE]

\* ------------------------------------------------- output file before the run
\* The finished image with the bytes of the file parts in S zeroed.
Damaged(t, S) ==
  [k \in 1..t.imageInfo.size |->
     IF \E p \in S : /\ k - 1 >= t.files[p].offset
                     /\ k - 1 < t.files[p].offset + t.files[p].size
     THEN ZeroByte ELSE TargetByte(k - 1)]

\* What open(O_CREAT) may find: no file (empty), the finished image, the
\* finished image with some parts zeroed, a file one byte short, a file one
\* byte too long.
PriorImages(t) ==
  {<< >>}
    \cup {Damaged(t, S) : S \in SUBSET (1..Len(t.files))}
    \cup {SubSeq(TargetImage(t.imageInfo.size), 1, t.imageInfo.size - 1)}
    \cup {TargetImage(t.imageInfo.size) \o << ZeroByte >>}

\* The runs explored.  For the one- and two-part templates: a new output
\* with every recipe, every earlier output with all parts remote, and the
\* finished or damaged outputs with the recipes that have local copies.  For
\* the three-part template: a new output or one whose last part is damaged,
\* all parts remote, and a new output with the second part unknown.
Inputs ==
  UNION {{[table |-> t, jigdo |-> r, image |-> img] :
            r \in Recipes(Len(t.files)), img \in PriorImages(t)} :
         t \in {ScenarioA}}
    \cup {[table |-> TwoFiles, jigdo |-> r, image |-> << >>] :
            r \in Recipes(2)}
    \cup {[table |-> TwoFiles, jigdo |-> << Remote, Remote >>, image |-> img] :
            img \in PriorImages(TwoFiles)}
    \cup {[table |-> TwoFiles, jigdo |-> r, image |-> Damaged(TwoFiles, S)] :
            r \in {<< Local, Remote >>, << Remote, Local >>,
                   << LocalOnly, LocalOnly >>},
            S \in {{}, {1}, {2}}}
    \cup {[table |-> ThreeFiles, jigdo |-> << Remote, Remote, Remote >>,
           image |-> img] : img \in {<< >>, Damaged(ThreeFiles, {3})}}
    \cup {[table |-> ThreeFiles, jigdo |-> << Remote, Missing, Remote >>,
           image |-> << >>]}

Init ==
  /\ numWorkers \in 1..MaxWorkers
  /\ \E in \in Inputs :
       /\ table = in.table
       /\ jigdo = in.jigdo
       /\ image = in.image
  /\ pastEnd = "untouched"
  /\ pc = "open"
  /\ slot = 0
  /\ contiguousComplete = 0
  /\ ret = FALSE
  /\ fileChecksum = 0
  /\ exitCode = 0
  /\ workerState = [w \in 1..numWorkers |-> EmptySlot]
  /\ prior = image
  /\ errCount = [p \in 1..Len(table.files) |-> 0]
  /\ envFail = FALSE
  /\ NoTemplate

\* ------------------------------------------------------------------ main()
\* A faulty main(): existingFile is never set.
M_OpenNeverExisting ==
  /\ pc = "open"
  /\ image' = image \o [k \in 1..(table.imageInfo.size - Len(image)) |-> ZeroByte]
  /\ pc' = "glue"
  /\ UNCHANGED << numWorkers, table, pastEnd, jigdo, slot, contiguousComplete,
                  ret, fileChecksum, exitCode, workerState, prior, errCount,
                  envFail >>
  /\ UNCHANGED tvars

\* main(): size test on the opened file, then posix_fallocate() or
\* existingFile = true.
M_Open ==
  /\ pc = "open"
  /\ IF Len(image) < table.imageInfo.size
     THEN \/ /\ image' = image \o [k \in 1..(table.imageInfo.size - Len(image)) |-> ZeroByte]
             /\ pc' = "glue"
             /\ UNCHANGED << exitCode, envFail, table >>
          \/ /\ pc' = "exited"
             /\ exitCode' = 1
             /\ envFail' = TRUE
             /\ UNCHANGED << image, table >>
     ELSE /\ table' = [table EXCEPT !.existingFile = TRUE]
          /\ pc' = "glue"
          /\ UNCHANGED << image, exitCode, envFail >>
  /\ UNCHANGED << numWorkers, pastEnd, jigdo, slot, contiguousComplete, ret,
                  fileChecksum, workerState, prior, errCount >>
  /\ UNCHANGED tvars

\* The decompressed glue stream of a well-formed template: the bytes of the
\* Data blocks, in table order.
RECURSIVE Decompressed(_)
Decompressed(blocks) ==
  IF blocks = << >> THEN << >>
  ELSE [k \in 1..Head(blocks).size |-> TargetByte(Head(blocks).offset + k - 1)]
         \o Decompressed(Tail(blocks))

\* A faulty copy loop: copiedSize stays 0, every block gets the start of the
\* buffer.
RECURSIVE copyDataBlocksFromStart(_, _, _, _, _)
copyDataBlocksFromStart(img, blocks, i, decompressed, copiedSize) ==
  IF i > Len(blocks) THEN img
  ELSE copyDataBlocksFromStart(
         [k \in 1..Len(img) |->
            IF k - 1 >= blocks[i].offset /\ k - 1 < blocks[i].offset + blocks[i].size
            THEN decompressed[k - blocks[i].offset]
            ELSE img[k]],
         blocks, i + 1, decompressed, 0)

\* writeDataFromTemplate(), copy loop: block i takes the next size bytes of
\* the decompressed buffer.
RECURSIVE copyDataBlocks(_, _, _, _, _)
copyDataBlocks(img, blocks, i, decompressed, copiedSize) ==
  IF i > Len(blocks) THEN img
  ELSE copyDataBlocks(
         [k \in 1..Len(img) |->
            IF k - 1 >= blocks[i].offset /\ k - 1 < blocks[i].offset + blocks[i].size
            THEN decompressed[copiedSize + (k - blocks[i].offset)]
            ELSE img[k]],
         blocks, i + 1, decompressed, copiedSize + blocks[i].size)

\* main(): writeDataFromTemplate() succeeds, or fails (unreadable template,
\* mmap failure) and main goes to done with ret = 1.
M_Glue ==
  /\ pc = "glue"
  /\ \/ /\ image' = copyDataBlocks(image, table.dataBlocks, 1,
                                   Decompressed(table.dataBlocks), 0)
        /\ pc' = "pfetch"
        /\ UNCHANGED << exitCode, envFail >>
     \/ /\ pc' = "exited"
        /\ exitCode' = 1
        /\ envFail' = TRUE
        /\ UNCHANGED image
  /\ UNCHANGED << numWorkers, table, pastEnd, jigdo, slot, contiguousComplete,
                  ret, fileChecksum, workerState, prior, errCount >>
  /\ UNCHANGED tvars

\* ---------------------------------------------------------------- pfetch()
\* pfetch(): mutex, signal handler and worker-state allocation; any failure
\* goes to done with ret = false.
P_Init ==
  /\ pc = "pfetch"
  /\ \/ /\ pc' = "local"
        /\ UNCHANGED envFail
     \/ /\ pc' = "done"
        /\ envFail' = TRUE
  /\ UNCHANGED << numWorkers, table, pastEnd, jigdo, image, slot,
                  contiguousComplete, ret, fileChecksum, exitCode, workerState,
                  prior, errCount >>
  /\ UNCHANGED tvars

\* pfetch(): localFiles = findLocalFiles(); a negative result is not acted on.
P_Local ==
  /\ pc = "local"
  /\ LET r == findLocalFiles(table.files, jigdo) IN
       /\ table' = [table EXCEPT !.files = r.files]
       /\ jigdo' = r.jigdo
  /\ pc' = "verify"
  /\ UNCHANGED << numWorkers, pastEnd, image, slot, contiguousComplete, ret,
                  fileChecksum, exitCode, workerState, prior,
                  errCount, envFail >>
  /\ UNCHANGED tvars

\* pfetch(): completedFiles = verifyPartial(); negative goes to done.
P_Verify ==
  /\ pc = "verify"
  /\ \E failAt \in {0} \cup {p \in Parts : table.existingFile
                                          /\ table.files[p].status # LOCAL_COPY} :
       LET r == verifyPartial(image, table, failAt) IN
         /\ table' = [table EXCEPT !.files = r.files]
         /\ IF r.ret < 0
            THEN /\ pc' = "done"
                 /\ envFail' = TRUE
                 /\ UNCHANGED contiguousComplete
            ELSE /\ pc' = "remain"
                 /\ contiguousComplete' = 0
                 /\ UNCHANGED envFail
  /\ UNCHANGED << numWorkers, pastEnd, jigdo, image, slot, ret, fileChecksum,
                  exitCode, workerState, prior, errCount >>
  /\ UNCHANGED tvars

\* pfetch(): the while condition, partsRemain(...) > 0.
P_Remain ==
  /\ pc = "remain"
  /\ LET r == partsRemain(table.files, contiguousComplete) IN
       /\ contiguousComplete' = r.beginComplete
       /\ IF r.ret > 0
          THEN /\ pc' = "slot"
               /\ slot' = 1
          ELSE /\ pc' = "md5"
               /\ UNCHANGED slot
  /\ UNCHANGED << numWorkers, table, pastEnd, jigdo, image, ret, fileChecksum,
                  exitCode, workerState, prior, errCount, envFail >>
  /\ UNCHANGED tvars

\* getStatus(): the status of part p, read under tableLock.
getStatus(p) == table.files[p].status

\* Where the for loop goes after slot i: the next slot, or usleep() and the
\* while condition.
NextSlot(i) ==
  IF i + 1 > numWorkers
  THEN pc' = "remain" /\ slot' = 0
  ELSE pc' = "slot" /\ slot' = i + 1

\* A faulty test of the slot: a part in ERROR does not free its slot.
slotIsFreeNoError(chunk, status) ==
  chunk = 0 \/ status = COMPLETE

\* A faulty test of the slot: a part in FATAL_ERROR frees its slot as well.
slotIsFreeFatal(chunk, status) ==
  chunk = 0 \/ status = COMPLETE \/ status = ERROR \/ status = FATAL_ERROR

\* pfetch(): args.chunk == NULL || status == COMPLETE || status == ERROR.
slotIsFree(chunk, status) ==
  chunk = 0 \/ status = COMPLETE \/ status = ERROR

\* pfetch(): one pass of the for loop body for slot i.  A slot that is
\* empty, or whose part is COMPLETE or ERROR, joins its thread (waiting for
\* fetch_worker to return), takes the part selectChunk() returns and starts
\* a thread on it; NULL breaks out of the loop, a pthread_create() failure
\* goes to done.  Any other slot is passed over.  The status read, the join
\* and the selection are one step: nothing but this loop selects parts or
\* changes a part that is COMPLETE or ERROR.
P_Slot ==
  /\ pc = "slot"
  /\ LET chunk == workerState[slot].chunk
         status == IF chunk # 0 THEN getStatus(chunk) ELSE NOT_STARTED IN
       IF slotIsFree(chunk, status)
       THEN /\ chunk # 0 => workerState[slot].pc = "finished"
            /\ LET r == selectChunk(table.files, pastEnd) IN
                 /\ table' = [table EXCEPT !.files = r.files]
                 /\ pastEnd' = r.pastEnd
                 /\ IF r.chunk = 0
                    THEN /\ workerState' =
                              [workerState EXCEPT ![slot].chunk = 0,
                                                  ![slot].pc = "idle"]
                         /\ pc' = "remain"
                         /\ slot' = 0
                         /\ UNCHANGED envFail
                    ELSE \/ /\ workerState' =
                                 [workerState EXCEPT ![slot].chunk = r.chunk,
                                                     ![slot].pc = "start"]
                            /\ NextSlot(slot)
                            /\ UNCHANGED envFail
                         \/ /\ workerState' =
                                 [workerState EXCEPT ![slot].chunk = r.chunk,
                                                     ![slot].pc = "idle"]
                            /\ pc' = "done"
                            /\ envFail' = TRUE
                            /\ UNCHANGED slot
       ELSE /\ NextSlot(slot)
            /\ UNCHANGED << table, pastEnd, workerState, envFail >>
  /\ UNCHANGED << numWorkers, jigdo, image, contiguousComplete, ret,
                  fileChecksum, exitCode, prior, errCount >>
  /\ UNCHANGED tvars

\* A faulty final check: the digest is computed and not compared.
P_Md5Unchecked ==
  /\ pc = "md5"
  /\ \E ok \in BOOLEAN :
       /\ fileChecksum' = md5Fd(image, ok)
       /\ ret' = TRUE
       /\ envFail' = (envFail \/ ~ok)
  /\ pc' = "done"
  /\ UNCHANGED << numWorkers, table, pastEnd, jigdo, image, slot,
                  contiguousComplete, exitCode, workerState, prior,
                  errCount >>
  /\ UNCHANGED tvars

\* pfetch(): the final check, ret = (md5Fd(fd) == imageInfo.md5Sum).
P_Md5 ==
  /\ pc = "md5"
  /\ \E ok \in BOOLEAN :
       /\ fileChecksum' = md5Fd(image, ok)
       /\ ret' = (md5Cmp(md5Fd(image, ok), table.imageInfo.md5Sum) = 0)
       /\ envFail' = (envFail \/ ~ok)
  /\ pc' = "done"
  /\ UNCHANGED << numWorkers, table, pastEnd, jigdo, image, slot,
                  contiguousComplete, exitCode, workerState, prior,
                  errCount >>
  /\ UNCHANGED tvars

\* pfetch() returns ret; main() leaves with 0 when it is true, with 1
\* otherwise, and the process ends.
M_Done ==
  /\ pc = "done"
  /\ exitCode' = IF ret THEN 0 ELSE 1
  /\ pc' = "exited"
  /\ UNCHANGED << numWorkers, table, pastEnd, jigdo, image, slot,
                  contiguousComplete, ret, fileChecksum, workerState, prior, errCount, envFail >>
  /\ UNCHANGED tvars

\* ------------------------------------------------------------ fetch_worker()
\* A faulty setStatus(): IN_PROGRESS is never stored.
setStatusNoInProgress(p, s) ==
  IF s = IN_PROGRESS THEN table ELSE [table EXCEPT !.files[p].status = s]

\* setStatus(): the table with part p set to status s, under tableLock.
setStatus(p, s) == [table EXCEPT !.files[p].status = s]

\* What one call of fetch() may do: src is whose bytes the mirror serves,
\* n how many of them reach the buffer, err whether the transfer fails.
\* A copy from a local directory serves the file that was verified there.
FetchOutcomes(size, uri) ==
  {[src |-> "good", n |-> size, err |-> FALSE],
   [src |-> "good", n |-> size - 1, err |-> FALSE],
   [src |-> "good", n |-> size, err |-> TRUE]}
    \cup (IF uri = "net"
          THEN {[src |-> "junk", n |-> size, err |-> FALSE]} ELSE {})

\* A faulty fetch(): the write callback does not test the capacity and one
\* byte more than the transfer's count reaches the mapping.
fetchPastEnd(img, chunk, o) ==
  [k \in 1..Len(img) |->
     IF k - 1 >= chunk.offset /\ k - 1 < chunk.offset + o.n + 1
     THEN IF o.src = "good" THEN TargetByte(k - 1) ELSE JunkByte
     ELSE img[k]]

\* fetch(): the image after the transfer wrote o.n bytes at the part's offset.
fetch(img, chunk, o) ==
  [k \in 1..Len(img) |->
     IF k - 1 >= chunk.offset /\ k - 1 < chunk.offset + o.n
     THEN IF o.src = "good" THEN TargetByte(k - 1) ELSE JunkByte
     ELSE img[k]]

\* fetch(): its return value as the worker's size_t sees it; -1 stands for
\* (size_t) -1, which no part size equals.
fetchReturn(o) == IF o.err THEN -1 ELSE o.n

\* fetch_worker(): md5ToURI(), mmap() and the first setStatus().
W_Start(w) ==
  /\ pc # "exited"
  /\ workerState[w].pc = "start"
  /\ LET p == workerState[w].chunk
         uri == md5ToURI(jigdo, p) IN
       IF uri = "SIGFPE"
       THEN /\ pc' = "exited"
            /\ exitCode' = -1
            /\ UNCHANGED << table, workerState, envFail >>
       ELSE IF uri = "NULL"
       THEN /\ table' = setStatus(p, FATAL_ERROR)
            /\ workerState' = [workerState EXCEPT ![w].pc = "exit"]
            /\ UNCHANGED << pc, exitCode, envFail >>
       ELSE \/ /\ table' = setStatus(p, IN_PROGRESS)
               /\ workerState' = [workerState EXCEPT ![w].pc = "fetch",
                                                     ![w].uri = uri]
               /\ UNCHANGED << pc, exitCode, envFail >>
            \/ /\ table' = setStatus(p, FATAL_ERROR)
               /\ workerState' = [workerState EXCEPT ![w].pc = "exit",
                                                     ![w].uri = uri]
               /\ envFail' = TRUE
               /\ UNCHANGED << pc, exitCode >>
  /\ UNCHANGED << numWorkers, pastEnd, jigdo, image, slot, contiguousComplete,
                  ret, fileChecksum, prior, errCount >>
  /\ UNCHANGED tvars

\* A faulty test of the fetch: the byte count alone decides.
fetchVerifiedSizeOnly(img, chunk, fetched) == fetched = chunk.size

\* fetch_worker(): fetched == size && verifyChunkMD5(...), on the mapped bytes.
fetchVerified(img, chunk, fetched) ==
  /\ fetched = chunk.size
  /\ verifyChunkMD5(Slice(img, chunk.offset, chunk.size), chunk)

\* fetch_worker(): fetched = fetch(uri, out + pagemod(offset), size, ...) and
\* the test of its result; the worker is left in front of its setStatus().
W_Fetch(w) ==
  /\ pc # "exited"
  /\ workerState[w].pc = "fetch"
  /\ LET p == workerState[w].chunk
         chunk == table.files[p] IN
       \E o \in FetchOutcomes(chunk.size, workerState[w].uri) :
         /\ image' = fetch(image, chunk, o)
         /\ workerState' =
              [workerState EXCEPT
                 ![w].pc = "publish",
                 ![w].fetched = fetchReturn(o),
                 ![w].ok = fetchVerified(fetch(image, chunk, o), chunk,
                                         fetchReturn(o))]
  /\ UNCHANGED << numWorkers, table, pastEnd, jigdo, pc, slot,
                  contiguousComplete, ret, fileChecksum, exitCode, prior,
                  errCount, envFail >>
  /\ UNCHANGED tvars

\* fetch_worker(): setStatus(COMPLETE) after msync/munmap, or setStatus(ERROR).
\* counted says whether the history counts the ERROR results.
Publish(w, counted) ==
  /\ pc # "exited"
  /\ workerState[w].pc = "publish"
  /\ LET p == workerState[w].chunk IN
       /\ table' = setStatus(p, IF workerState[w].ok THEN COMPLETE ELSE ERROR)
       /\ errCount' = [errCount EXCEPT
                         ![p] = IF counted /\ ~workerState[w].ok /\ @ < MaxLog
                                THEN @ + 1 ELSE @]
  /\ workerState' = [workerState EXCEPT ![w].pc = "exit"]
  /\ UNCHANGED << numWorkers, pastEnd, jigdo, image, pc, slot,
                  contiguousComplete, ret, fileChecksum, exitCode, prior,
                  envFail >>
  /\ UNCHANGED tvars

W_Publish(w) == Publish(w, FALSE)

W_PublishCounted(w) == Publish(w, TRUE)

\* fetch_worker(): done: free(a->uri); return NULL.
W_Exit(w) ==
  /\ pc # "exited"
  /\ workerState[w].pc = "exit"
  /\ workerState' = [workerState EXCEPT ![w].pc = "finished",
                                        ![w].uri = "NULL",
                                        ![w].fetched = 0,
                                        ![w].ok = FALSE]
  /\ UNCHANGED << numWorkers, table, pastEnd, jigdo, image, pc, slot,
                  contiguousComplete, ret, fileChecksum, exitCode, prior, errCount, envFail >>
  /\ UNCHANGED tvars

fetch_worker(w) ==
  W_Start(w) \/ W_Fetch(w) \/ W_Publish(w) \/ W_Exit(w)

fetch_workerCounted(w) ==
  W_Start(w) \/ W_Fetch(w) \/ W_PublishCounted(w) \/ W_Exit(w)

\* The steps of the main thread.
Orchestrator ==
  \/ M_Open
  \/ M_Glue
  \/ P_Init
  \/ P_Local
  \/ P_Verify
  \/ P_Remain
  \/ P_Slot
  \/ P_Md5
  \/ M_Done

Next ==
  \/ M_Open
  \/ M_Glue
  \/ P_Init
  \/ P_Local
  \/ P_Verify
  \/ P_Remain
  \/ P_Slot
  \/ P_Md5
  \/ M_Done
  \/ \E w \in Slots : fetch_worker(w)

Spec == Init /\ [][Next]_vars

\* The threads are scheduled by the operating system: the main thread and
\* every worker thread that can take a step eventually takes one.
FairSpec ==
  /\ Init
  /\ [][Next]_vars
  /\ WF_vars(Orchestrator)
  /\ \A w \in 1..MaxWorkers : WF_vars(w \in Slots /\ fetch_worker(w))

\* Scenario B: two file parts on remote mirrors and no earlier output, with
\* the ERROR results of every part counted.
InitScenarioB ==
  /\ Init
  /\ table = TwoFiles
  /\ jigdo = << Remote, Remote >>
  /\ image = << >>

NextCounted ==
  \/ M_Open
  \/ M_Glue
  \/ P_Init
  \/ P_Local
  \/ P_Verify
  \/ P_Remain
  \/ P_Slot
  \/ P_Md5
  \/ M_Done
  \/ \E w \in Slots : fetch_workerCounted(w)

SpecB == InitScenarioB /\ [][NextCounted]_vars

\* ------------------------------------------------ 64-bit unsigned values
\* A uint64_t is held as its four 16-bit digits, least significant first.
Digit == 65536

U64Zero == << 0, 0, 0, 0 >>

\* (uint64_t) b of a uint8_t b.
U64FromByte(b) == << b, 0, 0, 0 >>

\* x << 8 on a uint64_t: the bits shifted out at the top are lost.
U64Shl8(x) ==
  [k \in 1..4 |-> ((x[k] * 256) % Digit)
                    + (IF k > 1 THEN x[k - 1] \div 256 ELSE 0)]

\* x << bits on a uint64_t, bits a multiple of 8 below 64.
RECURSIVE U64Shl(_, _)
U64Shl(x, bits) == IF bits = 0 THEN x ELSE U64Shl(U64Shl8(x), bits - 8)

\* The carry into digit k of x + y.
RECURSIVE U64Carry(_, _, _)
U64Carry(x, y, k) ==
  IF k = 1 THEN 0
  ELSE (x[k - 1] + y[k - 1] + U64Carry(x, y, k - 1)) \div Digit

\* x + y on uint64_t: the carry out of the top digit is lost.
U64Add(x, y) == [k \in 1..4 |-> (x[k] + y[k] + U64Carry(x, y, k)) % Digit]

\* A uint64_t below 2^31 as a number.
U64ToInt(x) == x[1] + Digit * x[2]

\* The uint64_t fits a number of the model (it is below 2^30).
U64Small(x) == x[2] < 16384 /\ x[3] = 0 /\ x[4] = 0

\* A faulty readLittleEndianValue(): the byte is shifted as a 32-bit int,
\* where the machine takes the shift count modulo 32.
RECURSIVE readLittleEndianValueFromInt(_, _, _, _)
readLittleEndianValueFromInt(base, bytes, i, acc) ==
  IF i >= bytes THEN acc
  ELSE readLittleEndianValueFromInt(
         base, bytes, i + 1,
         U64Add(acc, [U64Shl(U64FromByte(base[i + 1]), (i * 8) % 32)
                        EXCEPT ![3] = 0, ![4] = 0]))

readLittleEndianValueInt(base, bytes) ==
  readLittleEndianValueFromInt(base, bytes, 0, U64Zero)

\* readLittleEndianValue(): for (ret = i = 0; i < bytes; i++)
\*   ret += (uint64_t) base[i] << i * 8.  i is the C index, acc is ret.
RECURSIVE readLittleEndianValueFrom(_, _, _, _)
readLittleEndianValueFrom(base, bytes, i, acc) ==
  IF i >= bytes THEN acc
  ELSE readLittleEndianValueFrom(
         base, bytes, i + 1,
         U64Add(acc, U64Shl(U64FromByte(base[i + 1]), i * 8)))

readLittleEndianValue(base, bytes) ==
  readLittleEndianValueFrom(base, bytes, 0, U64Zero)

\* templateU48ToU64(): the 6 bytes of a templateU48 as a uint64_t.
templateU48ToU64(i) == readLittleEndianValue(i, 6)

\* ------------------------------------------------- the .template DESC table
TEMPLATE_ENTRY_TYPE_IMAGE_INFO_OBSOLETE == 1
TEMPLATE_ENTRY_TYPE_DATA == 2
TEMPLATE_ENTRY_TYPE_FILE_OBSOLETE == 3
TEMPLATE_ENTRY_TYPE_IMAGE_INFO == 5
TEMPLATE_ENTRY_TYPE_FILE == 6

\* descHeader[]: 'D', 'E', 'S', 'C'.
descHeader == << 68, 69, 83, 67 >>

\* What memset(table, 0, sizeof(*table)) leaves.
ZeroTable ==
  [imageInfo |-> [size |-> 0, md5Sum |-> [k \in 1..16 |-> 0],
                  rsync64SumBlockLen |-> U64Zero],
   dataBlocks |-> << >>,
   files |-> << >>,
   existingFile |-> FALSE]

\* fread(ptr, len, 1, fp) at position pos (bytes before it) gets its item.
freadOk(file, pos, len) == pos + len <= Len(file)

\* A faulty switch: the default case is taken as a data entry.
entryCaseNoDefault(type) ==
  IF type \in {TEMPLATE_ENTRY_TYPE_IMAGE_INFO_OBSOLETE,
               TEMPLATE_ENTRY_TYPE_IMAGE_INFO} THEN "imageInfo"
  ELSE IF type \in {TEMPLATE_ENTRY_TYPE_FILE_OBSOLETE,
                    TEMPLATE_ENTRY_TYPE_FILE} THEN "file"
  ELSE "data"

\* freadTemplateDesc(): the case the switch (type) takes.
entryCase(type) ==
  IF type \in {TEMPLATE_ENTRY_TYPE_IMAGE_INFO_OBSOLETE,
               TEMPLATE_ENTRY_TYPE_IMAGE_INFO} THEN "imageInfo"
  ELSE IF type = TEMPLATE_ENTRY_TYPE_DATA THEN "data"
  ELSE IF type \in {TEMPLATE_ENTRY_TYPE_FILE_OBSOLETE,
                    TEMPLATE_ENTRY_TYPE_FILE} THEN "file"
  ELSE "default"

\* freadTemplateDesc(): the loop over the entries.  pos is the position of
\* fp, size the countdown, offset the running offset, tbl the table so far.
\* Every subtraction from size follows a successful fread() of as many
\* bytes, and size is the distance from pos to the end of the file, so the
\* unsigned countdown never wraps.  blockLen and rsync64Sum are declared
\* in the switch block ahead of its first case label, so their "= 0" is
\* never executed: an entry that does not read them finds what their
\* storage holds, which stack carries from one entry to the next.
RECURSIVE descEntries(_, _, _, _, _, _)
descEntries(file, pos, size, offset, tbl, stack) ==
  IF ~(size > 6) THEN [ok |-> TRUE, table |-> tbl]
  ELSE IF ~freadOk(file, pos, 1) \/ ~freadOk(file, pos + 1, 6)
       THEN [ok |-> FALSE, table |-> tbl]
  ELSE
    LET type == file[pos + 1]
        entrySize == U64ToInt(templateU48ToU64(Slice(file, pos + 1, 6)))
        at == pos + 7
    IN
    IF entryCase(type) = "imageInfo"
    THEN LET more == IF type = TEMPLATE_ENTRY_TYPE_IMAGE_INFO THEN 4 ELSE 0
             blockLen == IF more = 4 THEN Slice(file, at + 16, 4)
                         ELSE stack.blockLen IN
         IF ~freadOk(file, at, 16) \/ ~freadOk(file, at + 16, more)
         THEN [ok |-> FALSE, table |-> tbl]
         ELSE descEntries(
                file, at + 16 + more, size - 7 - 16 - more, offset,
                [tbl EXCEPT !.imageInfo =
                   [size |-> entrySize,
                    md5Sum |-> Slice(file, at, 16),
                    rsync64SumBlockLen |->
                      readLittleEndianValue(blockLen, 4)]],
                [stack EXCEPT !.blockLen = blockLen])
    ELSE IF entryCase(type) = "data"
    THEN descEntries(
           file, at, size - 7, offset + entrySize,
           [tbl EXCEPT !.dataBlocks =
              Append(@, [size |-> entrySize, offset |-> offset])],
           stack)
    ELSE IF entryCase(type) = "file"
    THEN LET more == IF type = TEMPLATE_ENTRY_TYPE_FILE THEN 8 ELSE 0
             rsync64Sum == IF more = 8 THEN Slice(file, at, 8)
                           ELSE stack.rsync64Sum IN
         IF ~freadOk(file, at, more) \/ ~freadOk(file, at + more, 16)
         THEN [ok |-> FALSE, table |-> tbl]
         ELSE descEntries(
                file, at + more + 16, size - 7 - more - 16,
                offset + entrySize,
                [tbl EXCEPT !.files =
                   Append(@, [size |-> entrySize,
                              offset |-> offset,
                              rsync64SumInitialBlock |->
                                readLittleEndianValue(rsync64Sum, 8),
                              md5Sum |-> Slice(file, at + more, 16),
                              status |-> NOT_STARTED])],
                [stack EXCEPT !.rsync64Sum = rsync64Sum])
    ELSE [ok |-> FALSE, table |-> tbl]

\* A faulty comparison of the two lengths: they always agree.
descLengthsAgreeAlways(size, sizeRead) == TRUE

\* freadTemplateDesc(): size != templateU48ToU64(sizeRead) is false.
descLengthsAgree(size, sizeRead) == size = templateU48ToU64(sizeRead)

\* freadTemplateDesc(): the length in the last six bytes, the seek to the
\* start of the table, the header and the second length, then the entries.
\* A length that is no number of the model is beyond the file: fseek()
\* fails, or seeks past the end where fread() fails.  stack is what the
\* storage of the function's locals holds when it is called.
freadTemplateDesc(file, stack) ==
  LET n == Len(file)
      bad == [ok |-> FALSE, table |-> ZeroTable] IN
  IF n < 6 THEN bad
  ELSE
    LET size == templateU48ToU64(Slice(file, n - 6, 6)) IN
    IF ~U64Small(size) \/ U64ToInt(size) > n THEN bad
    ELSE
      LET pos == n - U64ToInt(size) IN
      IF ~freadOk(file, pos, 4) THEN bad
      ELSE IF Slice(file, pos, 4) # descHeader THEN bad
      ELSE IF ~freadOk(file, pos + 4, 6) THEN bad
      ELSE IF ~descLengthsAgree(size, Slice(file, pos + 4, 6)) THEN bad
      ELSE descEntries(file, pos + 10, U64ToInt(size) - 10, 0, ZeroTable,
                       stack)

\* ------------------------------------------------- the files that are read
MaxEntries == 3    \* most entries of a DESC table explored

\* The entries explored: the five types of the format with one or two
\* lengths, and a type that is none of them.
EntryKinds ==
  {[type |-> t, size |-> z] :
     t \in {TEMPLATE_ENTRY_TYPE_IMAGE_INFO_OBSOLETE, TEMPLATE_ENTRY_TYPE_DATA,
            TEMPLATE_ENTRY_TYPE_IMAGE_INFO, TEMPLATE_ENTRY_TYPE_FILE},
     z \in {1, 2}}
    \cup {[type |-> TEMPLATE_ENTRY_TYPE_FILE_OBSOLETE, size |-> 1],
          [type |-> 4, size |-> 1]}

\* The six bytes of a length below 2^16.
U48Bytes(n) == << n % 256, (n \div 256) % 256, 0, 0, 0, 0 >>

\* The bytes of one entry: type, length, and the fields its type has.
EntryBytes(e) ==
  << e.type >> \o U48Bytes(e.size)
    \o (IF e.type = TEMPLATE_ENTRY_TYPE_IMAGE_INFO
        THEN [k \in 1..16 |-> 7] \o << 0, 2, 0, 0 >>
        ELSE IF e.type \in {TEMPLATE_ENTRY_TYPE_IMAGE_INFO_OBSOLETE,
                            TEMPLATE_ENTRY_TYPE_FILE_OBSOLETE}
        THEN [k \in 1..16 |-> 7]
        ELSE IF e.type = TEMPLATE_ENTRY_TYPE_FILE
        THEN [k \in 1..8 |-> 9] \o [k \in 1..16 |-> 7]
        ELSE << >>)

RECURSIVE EntriesBytes(_)
EntriesBytes(es) ==
  IF es = << >> THEN << >> ELSE EntryBytes(Head(es)) \o EntriesBytes(Tail(es))

\* The end of a .template file: two bytes of what precedes the table, the
\* header m, the table's length plus first, the entries es, and the table's
\* length plus last.  With m.overlap > 0 the file is that much shorter: the
\* last length lies over the last m.overlap bytes of what precedes it.
TemplateTail(m) ==
  LET body == EntriesBytes(m.entries)
      len == 4 + 6 + Len(body) - m.overlap + 6
      content == m.header \o U48Bytes(len + m.first) \o body IN
  << 13, 10 >> \o SubSeq(content, 1, Len(content) - m.overlap)
    \o U48Bytes(len + m.last)

RECURSIVE EntryLists(_)
EntryLists(n) ==
  IF n = 0 THEN {<< >>}
  ELSE EntryLists(n - 1)
         \cup {Append(es, e) : es \in {l \in EntryLists(n - 1) : Len(l) = n - 1},
                               e \in EntryKinds}

\* The files explored: every list of at most MaxEntries entries, with the
\* right header and lengths, with either length one too large, and with a
\* header that is not "DESC".
Made ==
  {[entries |-> es, header |-> v.header, first |-> v.first, last |-> v.last,
    overlap |-> v.overlap] :
     es \in EntryLists(MaxEntries),
     v \in {[header |-> descHeader, first |-> 0, last |-> 0, overlap |-> 0],
            [header |-> descHeader, first |-> 1, last |-> 0, overlap |-> 0],
            [header |-> descHeader, first |-> 0, last |-> 1, overlap |-> 0],
            [header |-> << 68, 69, 83, 75 >>, first |-> 0, last |-> 0,
             overlap |-> 0]}}

\* The files explored whose last length lies over the three or the six
\* bytes before it.
MadeOverlap ==
  {[entries |-> es, header |-> descHeader, first |-> 0, last |-> 0,
    overlap |-> n] :
     es \in EntryLists(MaxEntries), n \in {3, 6}}

\* main() is about to call freadTemplateDesc(): nothing else has run.
AtTemplate ==
  /\ numWorkers = 1
  /\ table = ScenarioA
  /\ jigdo = << Remote >>
  /\ image = << >>
  /\ pastEnd = "untouched"
  /\ slot = 0
  /\ contiguousComplete = 0
  /\ ret = FALSE
  /\ fileChecksum = 0
  /\ exitCode = 0
  /\ workerState = << EmptySlot >>
  /\ prior = << >>
  /\ errCount = << 0 >>
  /\ envFail = FALSE
  /\ NoMapping

InitDesc ==
  /\ AtTemplate
  /\ pc = "template"
  /\ made \in Made
  /\ fp = TemplateTail(made)
  /\ parsed = "none"
  /\ tpc = "read"

\* What the stack may hold below main()'s frame when freadTemplateDesc() is
\* called: zero bytes, or bytes that earlier calls left.
StackContents ==
  {[blockLen |-> << 0, 0, 0, 0 >>, rsync64Sum |-> [k \in 1..8 |-> 0]],
   [blockLen |-> << 1, 0, 0, 0 >>, rsync64Sum |-> [k \in 1..8 |-> 1]]}

\* main() is about to call freadTemplateDesc() on a file whose last length
\* lies over the bytes before it.
InitDescTail ==
  /\ AtTemplate
  /\ pc = "template"
  /\ made \in MadeOverlap
  /\ fp = TemplateTail(made)
  /\ parsed = "none"
  /\ tpc = "read"

\* main(): freadTemplateDesc(fp, &table).
T_Read ==
  /\ tpc = "read"
  /\ \E stack \in StackContents : parsed' = freadTemplateDesc(fp, stack)
  /\ tpc' = "test"
  /\ UNCHANGED << numWorkers, table, pastEnd, jigdo, image, pc, slot,
                  contiguousComplete, ret, fileChecksum, exitCode,
                  workerState, prior, errCount, envFail, fp, made >>
  /\ UNCHANGED mvars

\* main(): if (!freadTemplateDesc(...)) goto done; otherwise the table goes
\* on to qsort() and the later phases.
T_Main ==
  /\ tpc = "test"
  /\ IF parsed.ok
     THEN /\ tpc' = "accepted"
          /\ pc' = "sort"
          /\ UNCHANGED exitCode
     ELSE /\ tpc' = "rejected"
          /\ pc' = "exited"
          /\ exitCode' = 1
  /\ UNCHANGED << numWorkers, table, pastEnd, jigdo, image, slot,
                  contiguousComplete, ret, fileChecksum, workerState, prior,
                  errCount, envFail, fp, parsed, made >>
  /\ UNCHANGED mvars

NextDesc ==
  \/ T_Read
  \/ T_Main

SpecDesc == InitDesc /\ [][NextDesc]_vars

SpecDescTail == InitDescTail /\ [][NextDesc]_vars

\* ---------------------------------------------------- the U48 reader alone
\* The byte values explored: the least, one, the sign bit and the greatest.
U48TestBytes == {0, 1, 128, 255}

\* A templateU48 has been read from the file: fp holds its six bytes.
InitU48 ==
  /\ AtTemplate
  /\ pc = "template"
  /\ made \in [1..6 -> U48TestBytes]
  /\ fp = made
  /\ parsed = U64Zero
  /\ tpc = "u48"

\* freadTemplateDesc(): size = templateU48ToU64(sizeRead).
U_Read ==
  /\ tpc = "u48"
  /\ parsed' = templateU48ToU64(fp)
  /\ tpc' = "u48done"
  /\ UNCHANGED << numWorkers, table, pastEnd, jigdo, image, pc, slot,
                  contiguousComplete, ret, fileChecksum, exitCode,
                  workerState, prior, errCount, envFail, fp, made >>
  /\ UNCHANGED mvars

NextU48 ==
  \/ U_Read

SpecU48 == InitU48 /\ [][NextU48]_vars

\* ------------------------------------------------------ the glue stream
MaxChunks == 2     \* most compressed chunks of a glue stream explored

\* decompressMemToMem(): stream is the number of bytes the compressed
\* stream holds, -1 for a damaged stream.  inflate(Z_FINISH) and
\* BZ2_bzBuffToBuffDecompress() fail on a damaged stream and on one that
\* holds more than outBytes bytes; otherwise they report what they wrote.
decompressMemToMem(type, stream, outBytes) ==
  IF type \notin {"ZLIB", "BZIP2"} THEN -1
  ELSE IF stream < 0 \/ stream > outBytes THEN -1
  ELSE stream

\* decompressDataPart(): the chunk at the position of fp, with avail bytes
\* left in the buffer.  called says whether decompressMemToMem() ran; aborted
\* says that an assert() failed in a build that has them (ndebug is false).
decompressDataPart(chunk, avail, ndebug) ==
  LET type == IF chunk.header = "DATA" THEN "ZLIB"
              ELSE IF chunk.header = "BZIP" THEN "BZIP2"
              ELSE "UNKNOWN"
      early(r) == [ret |-> r, called |-> FALSE, aborted |-> FALSE] IN
  IF chunk.header = "EOF" THEN early(-1)
  ELSE IF chunk.header = "DESC" THEN early(0)
  ELSE IF type = "UNKNOWN" THEN early(-1)
  ELSE IF chunk.outBytes > avail THEN early(-1)
  ELSE LET r == decompressMemToMem(type, chunk.stream, chunk.outBytes) IN
       [ret |-> r, called |-> TRUE,
        aborted |-> ~ndebug /\ (~(r = chunk.outBytes \/ r = -1)
                                 \/ chunk.outBytes = 0)]

\* writeDataFromTemplate(): the do-while loop over the chunks and the
\* assert() after it.  k is the chunk fp is at (past the last one fread()
\* fails), seen the chunks decompressMemToMem() ran on, each with what it
\* returned.
RECURSIVE decompressStream(_, _, _, _, _, _)
decompressStream(chunks, k, total, doneSize, seen, ndebug) ==
  LET chunk == IF k <= Len(chunks) THEN chunks[k] ELSE [header |-> "EOF"]
      part == decompressDataPart(chunk, total - doneSize, ndebug)
      now == IF part.called
             THEN Append(seen, [outBytes |-> chunk.outBytes, ret |-> part.ret])
             ELSE seen IN
  IF part.aborted THEN [ret |-> "abort", seen |-> now, doneSize |-> doneSize]
  ELSE IF part.ret < 0
       THEN [ret |-> "false", seen |-> now, doneSize |-> doneSize]
  ELSE IF part.ret > 0
       THEN decompressStream(chunks, k + 1, total, doneSize + part.ret, now,
                             ndebug)
  ELSE IF ~ndebug /\ doneSize # total
       THEN [ret |-> "abort", seen |-> now, doneSize |-> doneSize]
  ELSE [ret |-> "true", seen |-> now, doneSize |-> doneSize]

\* The chunks explored: a zlib or bzip2 chunk that declares 0, 1 or 2 bytes
\* and whose stream is damaged or holds 0 to 3 bytes, and a chunk whose
\* magic is none of "DATA", "BZIP", "DESC".
ChunkKinds ==
  {[header |-> h, outBytes |-> o, stream |-> z] :
     h \in {"DATA", "BZIP"}, o \in 0..2, z \in -1..3}
    \cup {[header |-> "JUNK", outBytes |-> 0, stream |-> 0]}

RECURSIVE ChunkLists(_)
ChunkLists(n) ==
  IF n = 0 THEN {<< >>}
  ELSE ChunkLists(n - 1)
         \cup {Append(cs, c) : cs \in {l \in ChunkLists(n - 1) : Len(l) = n - 1},
                               c \in ChunkKinds}

\* What follows the chunks: the DESC table, or the end of a cut-off file.
StreamEnds == {[header |-> "DESC"], [header |-> "EOF"]}

\* The table of the glue streams explored: two data blocks of one byte, each
\* followed by a file part of one byte.
GlueBlocks == << DataEntry(1, 0), DataEntry(1, 2) >>

GlueTable ==
  [imageInfo |-> [size |-> 4, md5Sum |-> md5MemOneShot(TargetImage(4))],
   dataBlocks |-> GlueBlocks,
   files |-> << FileEntry(1, 1), FileEntry(1, 3) >>,
   existingFile |-> FALSE]

\* The output file when writeDataFromTemplate() is called: as
\* posix_fallocate() left it, or an earlier file of other content.
GlueImages == {[k \in 1..4 |-> ZeroByte], [k \in 1..4 |-> JunkByte]}

\* What malloc() may have left in a byte of the buffer that no chunk wrote.
HeapBytes == {ZeroByte, JunkByte}

\* The buffer decompressed after the loop: the first doneSize bytes are the
\* bytes of the stream, the others are as malloc() left them (heap).
decompressedBuffer(total, doneSize, heap) ==
  [j \in 1..total |-> IF j <= doneSize THEN TargetByte(j - 1) ELSE heap[j]]

RECURSIVE totalDecompressedSize(_)
totalDecompressedSize(blocks) ==
  IF blocks = << >> THEN 0
  ELSE Head(blocks).size + totalDecompressedSize(Tail(blocks))

\* main() is about to call writeDataFromTemplate(); made.ndebug tells
\* whether the program was built with NDEBUG.
InitGlue ==
  /\ numWorkers = 1
  /\ table = GlueTable
  /\ jigdo = << Remote, Remote >>
  /\ image \in GlueImages
  /\ pastEnd = "untouched"
  /\ slot = 0
  /\ contiguousComplete = 0
  /\ ret = FALSE
  /\ fileChecksum = 0
  /\ exitCode = 0
  /\ workerState = << EmptySlot >>
  /\ prior = image
  /\ errCount = << 0, 0 >>
  /\ envFail = FALSE
  /\ NoMapping
  /\ pc = "glue"
  /\ made \in {[chunks |-> cs \o << e >>, ndebug |-> b] :
                 cs \in ChunkLists(MaxChunks), e \in StreamEnds,
                 b \in BOOLEAN}
  /\ fp = made.chunks
  /\ parsed = [ret |-> "none", seen |-> << >>, doneSize |-> 0,
               decompressed |-> << >>]
  /\ tpc = "stream"

\* writeDataFromTemplate(): the header is valid and the buffer allocated;
\* the chunks are decompressed into the buffer, then the data blocks are
\* copied from it into the output file.  The copy goes through all blocks,
\* or mmap(), msync() or munmap() fails after n of them were copied.
G_Write ==
  /\ tpc = "stream"
  /\ LET total == totalDecompressedSize(table.dataBlocks)
         r == decompressStream(fp, 1, total, 0, << >>, made.ndebug) IN
       IF r.ret # "true"
       THEN /\ parsed' = [ret |-> r.ret, seen |-> r.seen,
                          doneSize |-> r.doneSize, decompressed |-> << >>]
            /\ UNCHANGED image
       ELSE \E heap \in [1..total -> HeapBytes] :
              LET buf == decompressedBuffer(total, r.doneSize, heap) IN
              \/ /\ parsed' = [ret |-> "true", seen |-> r.seen,
                               doneSize |-> r.doneSize, decompressed |-> buf]
                 /\ image' = copyDataBlocks(image, table.dataBlocks, 1, buf, 0)
              \/ \E n \in 0..Len(table.dataBlocks) :
                   /\ parsed' = [ret |-> "false", seen |-> r.seen,
                                 doneSize |-> r.doneSize, decompressed |-> buf]
                   /\ image' = copyDataBlocks(image,
                                              SubSeq(table.dataBlocks, 1, n),
                                              1, buf, 0)
  /\ tpc' = "written"
  /\ UNCHANGED << numWorkers, table, pastEnd, jigdo, pc, slot,
                  contiguousComplete, ret, fileChecksum, exitCode,
                  workerState, prior, errCount, envFail, fp, made >>
  /\ UNCHANGED mvars

\* main(): if (!writeDataFromTemplate(...)) goto done; a failed assert()
\* ends the process with SIGABRT.
G_Main ==
  /\ tpc = "written"
  /\ tpc' = "idle"
  /\ IF parsed.ret = "true"
     THEN pc' = "pfetch" /\ UNCHANGED exitCode
     ELSE /\ pc' = "exited"
          /\ exitCode' = IF parsed.ret = "abort" THEN -1 ELSE 1
  /\ UNCHANGED << numWorkers, table, pastEnd, jigdo, image, slot,
                  contiguousComplete, ret, fileChecksum, workerState, prior,
                  errCount, envFail, fp, parsed, made >>
  /\ UNCHANGED mvars

NextGlue ==
  \/ G_Write
  \/ G_Main

SpecGlue == InitGlue /\ [][NextGlue]_vars

TypeOK ==
  /\ numWorkers \in 1..MaxWorkers
  /\ \A p \in Parts : table.files[p].status \in commitStatus
  /\ pc \in {"open", "glue", "pfetch", "local", "verify", "remain", "slot",
             "md5", "done", "exited"}
  /\ \A w \in Slots : workerState[w].chunk \in 0..numFiles

\* ------------------------------------------------------------ vocabulary
status(p) == table.files[p].status

AllComplete == \A p \in Parts : status(p) = COMPLETE

\* The finished image the template describes.
Target == TargetImage(table.imageInfo.size)

\* The bytes of part p are in place in the file content img.
Intact(img, p) ==
  /\ Len(img) >= table.files[p].offset + table.files[p].size
  /\ verifyChunkMD5(Slice(img, table.files[p].offset, table.files[p].size),
                    table.files[p])

\* pfetch() is in its dispatch loop, or has left it for the final check.
InLoop == pc \in {"remain", "slot"}
AfterVerify == pc \in {"remain", "slot", "md5"}

\* Worker w is between its start and the setStatus() that ends its fetch.
Fetching(w) == workerState[w].pc \in {"start", "fetch", "publish"}

\* The largest number of parts of a template explored.
MaxParts == Len(ThreeFiles.files)

\* ------------------------------------------------- partsRemain() alone
\* The tables explored: one to MaxParts parts of one byte, in any status.
RemainTable(st) ==
  [imageInfo |-> [size |-> Len(st), md5Sum |-> md5MemOneShot(TargetImage(Len(st)))],
   dataBlocks |-> << >>,
   files |-> [p \in 1..Len(st) |-> [FileEntry(1, p - 1) EXCEPT !.status = st[p]]],
   existingFile |-> FALSE]

RemainTables ==
  {RemainTable(st) : st \in UNION {[1..n -> commitStatus] : n \in 1..MaxParts}}

\* pfetch() is at its while condition: the cursor is at a part of the table
\* and every part before the cursor is COMPLETE.
InitRemain ==
  /\ numWorkers = 1
  /\ table \in RemainTables
  /\ contiguousComplete \in 0..(Len(table.files) - 1)
  /\ \A p \in 1..contiguousComplete : table.files[p].status = COMPLETE
  /\ jigdo = [p \in 1..Len(table.files) |-> Remote]
  /\ image = [k \in 1..Len(table.files) |-> ZeroByte]
  /\ pastEnd = "untouched"
  /\ pc = "remain"
  /\ slot = 0
  /\ ret = FALSE
  /\ fileChecksum = 0
  /\ exitCode = 0
  /\ workerState = << EmptySlot >>
  /\ prior = << >>
  /\ errCount = [p \in 1..Len(table.files) |-> 0]
  /\ envFail = FALSE
  /\ fp = << >>
  /\ parsed = "none"
  /\ tpc = "remain"
  /\ made = contiguousComplete
  /\ NoMapping

\* pfetch(): the call partsRemain(table.files, table.numFiles,
\* &contiguousComplete); parsed holds what it returned.
R_Call ==
  /\ tpc = "remain"
  /\ parsed' = partsRemain(table.files, contiguousComplete)
  /\ contiguousComplete' = partsRemain(table.files, contiguousComplete).beginComplete
  /\ tpc' = "remained"
  /\ UNCHANGED << numWorkers, table, pastEnd, jigdo, image, pc, slot, ret,
                  fileChecksum, exitCode, workerState, prior, errCount,
                  envFail, fp, made >>
  /\ UNCHANGED mvars

\* pfetch(): while (partsRemain(...) > 0): into the for loop, or on to the
\* final check.
R_While ==
  /\ tpc = "remained"
  /\ tpc' = "idle"
  /\ IF parsed.ret > 0
     THEN pc' = "slot" /\ slot' = 1
     ELSE pc' = "md5" /\ UNCHANGED slot
  /\ UNCHANGED << numWorkers, table, pastEnd, jigdo, image,
                  contiguousComplete, ret, fileChecksum, exitCode,
                  workerState, prior, errCount, envFail, fp, parsed, made >>
  /\ UNCHANGED mvars

NextRemain ==
  \/ R_Call
  \/ R_While

SpecRemain == InitRemain /\ [][NextRemain]_vars

\* ------------------------------------------------ the mapping of one part
PageSize == 4      \* getpagesize() of the machine explored, in bytes

\* pagemod() and pagebase() of util.c.
pagemod(offset) == offset % PageSize

pagebase(offset) == offset - pagemod(offset)

\* The pages of the output file that mmap(), msync() or munmap() act on for
\* the page-aligned file offset base and the length len: the kernel extends
\* the length to whole pages.
PagesOf(base, len) ==
  {k \in 0..((base + len) \div PageSize) :
     k * PageSize < base + len /\ (k + 1) * PageSize > base}

\* The parts explored: every offset of the first two pages, every size up to
\* one byte more than a page; looked at by a worker that gets a URI, by a
\* worker that gets none, and by verifyPartial().
MapInputs ==
  {[offset |-> o, size |-> z, who |-> v.who, uri |-> v.uri] :
     o \in 0..(2 * PageSize - 1), z \in 1..(PageSize + 1),
     v \in {[who |-> "fetch_worker", uri |-> "net"],
            [who |-> "fetch_worker", uri |-> "NULL"],
            [who |-> "verifyPartial", uri |-> "NULL"]}}

\* A thread is about to look at the part made: a worker that was handed the
\* part (ASSIGNED), or the main thread inside verifyPartial() (NOT_STARTED).
\* parsed is the status of the part.
InitMap ==
  /\ numWorkers = 1
  /\ table = ScenarioA
  /\ jigdo = << Remote >>
  /\ image = << >>
  /\ pastEnd = "untouched"
  /\ slot = 0
  /\ contiguousComplete = 0
  /\ ret = FALSE
  /\ fileChecksum = 0
  /\ exitCode = 0
  /\ workerState = << EmptySlot >>
  /\ prior = << >>
  /\ errCount = << 0 >>
  /\ envFail = FALSE
  /\ made \in MapInputs
  /\ pc = IF made.who = "fetch_worker" THEN "slot" ELSE "verify"
  /\ fp = << >>
  /\ parsed = IF made.who = "fetch_worker" THEN ASSIGNED ELSE NOT_STARTED
  /\ tpc = "start"
  /\ NoMapping

\* What the steps of one mapping leave alone.
MapFrame ==
  UNCHANGED << numWorkers, table, pastEnd, jigdo, image, pc, slot,
               contiguousComplete, ret, fileChecksum, exitCode, workerState,
               prior, errCount, envFail, fp, made, unlocked >>

\* fetch_worker(): md5ToURI(); without a URI FATAL_ERROR is stored; with one,
\* mmap(NULL, size + pagemod(offset), ..., pagebase(offset)) maps the window
\* and IN_PROGRESS is stored, or fails and FATAL_ERROR is stored.
FW_Mmap ==
  /\ tpc = "start"
  /\ made.who = "fetch_worker"
  /\ IF made.uri = "NULL"
     THEN /\ parsed' = FATAL_ERROR
          /\ tpc' = "returned"
          /\ UNCHANGED mapped
     ELSE \/ /\ mapped' = mapped \cup PagesOf(pagebase(made.offset),
                                              made.size + pagemod(made.offset))
             /\ parsed' = IN_PROGRESS
             /\ tpc' = "fetch"
          \/ /\ parsed' = FATAL_ERROR
             /\ tpc' = "returned"
             /\ UNCHANGED mapped
  /\ UNCHANGED synced
  /\ MapFrame

\* fetch_worker(): fetch() and the test of its result; a failed test stores
\* ERROR and goes to done.
FW_Fetch ==
  /\ tpc = "fetch"
  /\ \/ /\ tpc' = "msync"
        /\ UNCHANGED parsed
     \/ /\ parsed' = ERROR
        /\ tpc' = "returned"
  /\ UNCHANGED << mapped, synced >>
  /\ MapFrame

\* fetch_worker(): msync(out, a->chunk->size, MS_SYNC).
FW_Msync ==
  /\ tpc = "msync"
  /\ synced' = synced \cup PagesOf(pagebase(made.offset), made.size)
  /\ tpc' = "munmap"
  /\ UNCHANGED << parsed, mapped >>
  /\ MapFrame

\* fetch_worker(): munmap(out, a->chunk->size).
FW_Munmap ==
  /\ tpc = "munmap"
  /\ mapped' = mapped \ PagesOf(pagebase(made.offset), made.size)
  /\ tpc' = "complete"
  /\ UNCHANGED << parsed, synced >>
  /\ MapFrame

\* fetch_worker(): setStatus(a->chunk, COMMIT_STATUS_COMPLETE) and return.
FW_Complete ==
  /\ tpc = "complete"
  /\ parsed' = COMPLETE
  /\ tpc' = "returned"
  /\ UNCHANGED << mapped, synced >>
  /\ MapFrame

\* verifyPartial(): mmap() of the part's window, or return -1.
VP_Mmap ==
  /\ tpc = "start"
  /\ made.who = "verifyPartial"
  /\ \/ /\ mapped' = mapped \cup PagesOf(pagebase(made.offset),
                                         made.size + pagemod(made.offset))
        /\ tpc' = "md5"
     \/ /\ tpc' = "returned"
        /\ UNCHANGED mapped
  /\ UNCHANGED << parsed, synced >>
  /\ MapFrame

\* verifyPartial(): verifyChunkMD5() and munmap(map, size + pagemod(offset)),
\* which succeeds on the window mmap() returned.
VP_Munmap ==
  /\ tpc = "md5"
  /\ \E match \in BOOLEAN : parsed' = IF match THEN COMPLETE ELSE parsed
  /\ mapped' = mapped \ PagesOf(pagebase(made.offset),
                                made.size + pagemod(made.offset))
  /\ tpc' = "returned"
  /\ UNCHANGED synced
  /\ MapFrame

NextMap ==
  \/ FW_Mmap
  \/ FW_Fetch
  \/ FW_Msync
  \/ FW_Munmap
  \/ FW_Complete
  \/ VP_Mmap
  \/ VP_Munmap

SpecMap == InitMap /\ [][NextMap]_vars

\* ------------------------------------------------ the status-dump signal
\* The thread of slot w has been created and has not returned.
ThreadAlive(w) == workerState[w].pc \in {"start", "fetch", "publish", "exit"}

\* printProgress(): the SIGUSR1 handler pfetch() installs.  It runs between
\* two steps of the threads, when no thread holds tableLock, and takes no
\* lock itself; while workerState is allocated it reads
\* workerState[i].args.chunk->status of every slot that has a part.
printProgress ==
  /\ pc \in {"local", "verify", "remain", "slot", "md5", "done"}
  /\ unlocked' = (\/ unlocked
                  \/ /\ \E w \in Slots : workerState[w].chunk # 0
                     /\ \E w \in Slots : ThreadAlive(w))
  /\ UNCHANGED << numWorkers, table, pastEnd, jigdo, image, pc, slot,
                  contiguousComplete, ret, fileChecksum, exitCode,
                  workerState, prior, errCount, envFail, fp, parsed, tpc,
                  made, mapped, synced >>

\* The run of Scenario B with SIGUSR1 arriving at any time.
NextSignal ==
  \/ M_Open
  \/ M_Glue
  \/ P_Init
  \/ P_Local
  \/ P_Verify
  \/ P_Remain
  \/ P_Slot
  \/ P_Md5
  \/ M_Done
  \/ \E w \in Slots : fetch_worker(w)
  \/ printProgress

SpecSignal == InitScenarioB /\ [][NextSignal]_vars

\* ------------------------------------------------ the sort of the parts
MaxSort == 3       \* most parts of a table that is sorted

\* The borrow into digit k of x - y.
RECURSIVE U64Borrow(_, _, _)
U64Borrow(x, y, k) ==
  IF k = 1 THEN 0
  ELSE IF x[k - 1] - y[k - 1] - U64Borrow(x, y, k - 1) < 0 THEN 1 ELSE 0

\* x - y on uint64_t: the result wraps around below zero.
U64Sub(x, y) ==
  [k \in 1..4 |-> (x[k] - y[k] - U64Borrow(x, y, k) + Digit) % Digit]

\* The sign (-1, 0, 1) of (int) x for a uint64_t x: the low 32 bits, read
\* as a two's complement number.
U64ToIntSign(x) ==
  IF x[2] >= 32768 THEN -1
  ELSE IF x[1] = 0 /\ x[2] = 0 THEN 0
  ELSE 1

\* x >= y on uint64_t.
U64Geq(x, y) == U64Borrow(x, y, 5) = 0

\* fileRevSizeCmp(): return fileB->size - fileA->size, as a sign.
fileRevSizeCmp(fileA, fileB) == U64ToIntSign(U64Sub(fileB.size, fileA.size))

\* qsort()'s merge of two sorted runs: the head of the first run is taken
\* unless the comparison says it comes after the head of the second.
RECURSIVE qsortMerge(_, _)
qsortMerge(b1, b2) ==
  IF b1 = << >> THEN b2
  ELSE IF b2 = << >> THEN b1
  ELSE IF fileRevSizeCmp(Head(b1), Head(b2)) <= 0
       THEN << Head(b1) >> \o qsortMerge(Tail(b1), b2)
  ELSE << Head(b2) >> \o qsortMerge(b1, Tail(b2))

\* qsort(table.files, table.numFiles, sizeof(table.files[0]),
\* fileRevSizeCmp): the C library's merge sort of the array.
RECURSIVE qsort(_)
qsort(b) ==
  IF Len(b) <= 1 THEN b
  ELSE LET n1 == Len(b) \div 2 IN
       qsortMerge(qsort(SubSeq(b, 1, n1)), qsort(SubSeq(b, n1 + 1, Len(b))))

\* The sizes explored, all below 2^48: 1, 2, 2^31, 2^32, 2^32 + 1 and
\* 2^48 - 1.
SortSizes ==
  {<< 1, 0, 0, 0 >>, << 2, 0, 0, 0 >>, << 0, 32768, 0, 0 >>,
   << 0, 0, 1, 0 >>, << 1, 0, 1, 0 >>, << 65535, 65535, 65535, 0 >>}

\* The parts of a table as freadTemplateDesc() leaves them, in file order;
\* the place in the file stands for the offset and the MD5 of the part.
SortInputs ==
  UNION {{[k \in 1..n |-> [size |-> z[k], offset |-> k, md5Sum |-> k,
                           status |-> NOT_STARTED]] :
            z \in [1..n -> SortSizes]} : n \in 2..MaxSort}

\* main() is about to sort the parts of the table it has read.
InitSort ==
  /\ AtTemplate
  /\ pc = "sort"
  /\ made \in SortInputs
  /\ fp = made
  /\ parsed = << >>
  /\ tpc = "sort"

\* main(): qsort(table.files, ...); parsed is the array after the call.
S_Sort ==
  /\ tpc = "sort"
  /\ parsed' = qsort(fp)
  /\ tpc' = "sorted"
  /\ pc' = "open"
  /\ UNCHANGED << numWorkers, table, pastEnd, jigdo, image, slot,
                  contiguousComplete, ret, fileChecksum, exitCode,
                  workerState, prior, errCount, envFail, fp, made >>
  /\ UNCHANGED mvars

NextSort ==
  \/ S_Sort

SpecSort == InitSort /\ [][NextSort]_vars

\* --------------------------------- a template with the all-ones digest
\* The inputs of the program with a template whose ImageInfo entry carries
\* sixteen bytes 0xff as the MD5 of the image.
SentinelInputs ==
  {[in EXCEPT !.table.imageInfo.md5Sum = md5FdFailed] : in \in Inputs}

InitSentinel ==
  /\ numWorkers \in 1..MaxWorkers
  /\ \E in \in SentinelInputs :
       /\ table = in.table
       /\ jigdo = in.jigdo
       /\ image = in.image
  /\ pastEnd = "untouched"
  /\ pc = "open"
  /\ slot = 0
  /\ contiguousComplete = 0
  /\ ret = FALSE
  /\ fileChecksum = 0
  /\ exitCode = 0
  /\ workerState = [w \in 1..numWorkers |-> EmptySlot]
  /\ prior = image
  /\ errCount = [p \in 1..Len(table.files) |-> 0]
  /\ envFail = FALSE
  /\ NoTemplate

SpecSentinel == InitSentinel /\ [][Next]_vars

\* ------------------------------------- pfetch() of pigdo.c and workerLock
\* In this section tpc is the state of workerLock ("uninit" while lockInit
\* is false, "free", or "held" by the main thread) and parsed the misuse of
\* the lock that has happened ("none" so far).
InitLock ==
  /\ numWorkers \in 1..MaxWorkers
  /\ \E in \in Inputs :
       /\ table = in.table
       /\ jigdo = in.jigdo
       /\ image = in.image
  /\ pastEnd = "untouched"
  /\ pc = "open"
  /\ slot = 0
  /\ contiguousComplete = 0
  /\ ret = FALSE
  /\ fileChecksum = 0
  /\ exitCode = 0
  /\ workerState = [w \in 1..numWorkers |-> EmptySlot]
  /\ prior = image
  /\ errCount = [p \in 1..Len(table.files) |-> 0]
  /\ envFail = FALSE
  /\ fp = << >>
  /\ parsed = "none"
  /\ tpc = "uninit"
  /\ made = "none"
  /\ NoMapping

\* pthread_mutex_unlock(&workerLock) by the main thread; unlocking a mutex
\* that is not locked leaves it unlocked.
workerUnlock ==
  IF tpc = "held"
  THEN tpc' = "free" /\ UNCHANGED parsed
  ELSE parsed' = "unlockNotHeld" /\ UNCHANGED tpc

\* pfetch(): the mutexes are initialised, workerLock is taken, workerState
\* is allocated and workerLock is released; a failing pthread_mutex_init()
\* goes to done before the lock exists, a failing calloc() with it held.
L_Init ==
  /\ pc = "pfetch"
  /\ \/ /\ pc' = "local"
        /\ tpc' = "free"
        /\ UNCHANGED envFail
     \/ /\ pc' = "done"
        /\ tpc' = "held"
        /\ envFail' = TRUE
     \/ /\ pc' = "done"
        /\ tpc' = "uninit"
        /\ envFail' = TRUE
  /\ UNCHANGED << numWorkers, table, pastEnd, jigdo, image, slot,
                  contiguousComplete, ret, fileChecksum, exitCode, workerState,
                  prior, errCount, fp, parsed, made >>
  /\ UNCHANGED mvars

\* pfetch(): the while condition and, inside the loop, the
\* pthread_mutex_lock(&workerLock) ahead of the for loop.  Locking the
\* mutex the thread holds blocks the thread for good.
L_Remain ==
  /\ pc = "remain"
  /\ LET r == partsRemain(table.files, contiguousComplete) IN
       /\ contiguousComplete' = r.beginComplete
       /\ IF r.ret > 0
          THEN IF tpc = "held"
               THEN /\ pc' = "blocked"
                    /\ parsed' = "lockHeld"
                    /\ UNCHANGED << slot, tpc >>
               ELSE /\ pc' = "slot"
                    /\ slot' = 1
                    /\ tpc' = "held"
                    /\ UNCHANGED parsed
          ELSE /\ pc' = "md5"
               /\ UNCHANGED << slot, tpc, parsed >>
  /\ UNCHANGED << numWorkers, table, pastEnd, jigdo, image, ret, fileChecksum,
                  exitCode, workerState, prior, errCount, envFail, fp, made >>
  /\ UNCHANGED mvars

\* pfetch(): one pass of the for loop body for slot i.  The break on a NULL
\* part and the goto done on a pthread_create() failure leave the body ahead
\* of the pthread_mutex_unlock(&workerLock) that ends it.
L_Slot ==
  /\ pc = "slot"
  /\ LET chunk == workerState[slot].chunk
         st == IF chunk # 0 THEN getStatus(chunk) ELSE NOT_STARTED IN
       IF slotIsFree(chunk, st)
       THEN /\ chunk # 0 => workerState[slot].pc = "finished"
            /\ LET r == selectChunk(table.files, pastEnd) IN
                 /\ table' = [table EXCEPT !.files = r.files]
                 /\ pastEnd' = r.pastEnd
                 /\ IF r.chunk = 0
                    THEN /\ workerState' =
                              [workerState EXCEPT ![slot].chunk = 0,
                                                  ![slot].pc = "idle"]
                         /\ pc' = "remain"
                         /\ slot' = 0
                         /\ UNCHANGED << envFail, tpc, parsed >>
                    ELSE \/ /\ workerState' =
                                 [workerState EXCEPT ![slot].chunk = r.chunk,
                                                     ![slot].pc = "start"]
                            /\ workerUnlock
                            /\ NextSlot(slot)
                            /\ UNCHANGED envFail
                         \/ /\ workerState' =
                                 [workerState EXCEPT ![slot].chunk = r.chunk,
                                                     ![slot].pc = "idle"]
                            /\ pc' = "done"
                            /\ envFail' = TRUE
                            /\ UNCHANGED << slot, tpc, parsed >>
       ELSE /\ workerUnlock
            /\ NextSlot(slot)
            /\ UNCHANGED << table, pastEnd, workerState, envFail >>
  /\ UNCHANGED << numWorkers, jigdo, image, contiguousComplete, ret,
                  fileChecksum, exitCode, prior, errCount, fp, made >>
  /\ UNCHANGED mvars

\* pfetch(): done: with lockInit set workerLock is taken, workerState freed,
\* the lock released and destroyed; pfetch returns ret and main() leaves
\* with 0 when it is true, with 1 otherwise.
L_Done ==
  /\ pc = "done"
  /\ IF tpc = "held"
     THEN /\ pc' = "blocked"
          /\ parsed' = "lockHeld"
          /\ UNCHANGED << exitCode, tpc >>
     ELSE /\ pc' = "exited"
          /\ exitCode' = IF ret THEN 0 ELSE 1
          /\ tpc' = "uninit"
          /\ UNCHANGED parsed
  /\ UNCHANGED << numWorkers, table, pastEnd, jigdo, image, slot,
                  contiguousComplete, ret, fileChecksum, workerState, prior,
                  errCount, envFail, fp, made >>
  /\ UNCHANGED mvars

NextLock ==
  \/ M_Open
  \/ M_Glue
  \/ L_Init
  \/ P_Local
  \/ P_Verify
  \/ L_Remain
  \/ L_Slot
  \/ P_Md5
  \/ L_Done
  \/ \E w \in Slots : fetch_worker(w)

SpecLock == InitLock /\ [][NextLock]_vars

\* ------------------------------------------------------------------ C1
\* C1: the run reports success (pfetch returns true, exit status 0) only if
\* the digest computed by the final md5Fd() equals imageInfo.md5Sum; every
\* other run that ends reports failure (non-zero exit status).
C1_SuccessOnlyIfMd5 ==
  /\ (pc \in {"done", "exited"} /\ ret)
       => md5Cmp(fileChecksum, table.imageInfo.md5Sum) = 0
  /\ pc = "exited" => (exitCode = 0 <=> ret)

\* A new output was assembled by the workers and the run reported success.
C1_Witness ==
  /\ pc = "exited"
  /\ exitCode = 0
  /\ prior = << >>
  /\ fileChecksum = table.imageInfo.md5Sum
  /\ AllComplete

\* ------------------------------------------------------------------ C2
\* C2: partsRemain returns 0 only when every part of the table is COMPLETE,
\* so whenever pfetch leaves the dispatch loop for the final MD5 check every
\* part is COMPLETE.
C2_DoneMeansAllComplete == pc = "md5" => AllComplete

\* ------------------------------------------------------------------ C3
\* C3: whenever a part's status becomes COMPLETE, the image bytes of the part
\* hash to its md5Sum at that moment, and when a worker stored the status
\* its fetch() had returned exactly the part's size.
C3_CompleteMeansVerified ==
  [][\A p \in Parts :
       (table.files[p].status # COMPLETE /\ table'.files[p].status = COMPLETE)
         => /\ verifyChunkMD5(Slice(image', table.files[p].offset,
                                    table.files[p].size), table.files[p])
            /\ \/ pc = "verify"
               \/ \E w \in Slots :
                    /\ workerState[w].chunk = p
                    /\ workerState[w].pc = "publish"
                    /\ workerState'[w].pc = "exit"
                    /\ workerState[w].fetched = table.files[p].size]_vars

\* A worker has just stored COMPLETE for the part it fetched.
C3_Witness ==
  \E w \in Slots :
    /\ workerState[w].pc = "exit"
    /\ workerState[w].chunk # 0
    /\ status(workerState[w].chunk) = COMPLETE
    /\ workerState[w].fetched = table.files[workerState[w].chunk].size

\* ------------------------------------------------------------------ C4
\* C4: a part is handed to a worker only when its status is NOT_STARTED,
\* ERROR or LOCAL_COPY at the instant of selection, and no part is ever
\* being fetched by two worker threads at the same time.
C4_SelectionLinearisable ==
  /\ [][\A w \in Slots :
          (workerState[w].pc # "start" /\ workerState'[w].pc = "start")
            => table.files[workerState'[w].chunk].status
                 \in {NOT_STARTED, ERROR, LOCAL_COPY}]_vars
  /\ [](\A w1, w2 \in Slots :
          (w1 # w2 /\ Fetching(w1) /\ Fetching(w2))
            => workerState[w1].chunk # workerState[w2].chunk)

\* Two slots hold the same part: the thread of one has stored ERROR and is
\* about to return, the other one fetches the part again.
C4_Witness ==
  \E w1, w2 \in Slots :
    /\ w1 # w2
    /\ workerState[w1].chunk = workerState[w2].chunk
    /\ workerState[w1].pc = "exit"
    /\ workerState[w2].pc = "fetch"

\* ------------------------------------------------------------------ C5
\* C5: once any part is FATAL_ERROR, pfetch eventually leaves the dispatch
\* loop and the run reports failure.
C5_FatalAborts ==
  (\E p \in Parts : status(p) = FATAL_ERROR)
    ~> (pc = "exited" /\ exitCode # 0)

\* ------------------------------------------------------------------ C6
\* C6: a part that enters ERROR while the dispatch loop is running is
\* eventually selected again (unless a system call fails or the process is
\* killed).
C6_ErrorRetried ==
  \A p \in 1..MaxParts :
    (p \in Parts /\ InLoop /\ status(p) = ERROR)
      ~> ((p \in Parts /\ status(p) = ASSIGNED) \/ envFail \/ exitCode = -1)

\* ------------------------------------------------------------------ C7
\* C7: Scenario A.  With one Data block [0,5), one File part [5,10) whose
\* file is in the recipe's only, local, mirror, and no earlier output, the
\* run ends with the part COMPLETE, its bytes at offset 5 and the final MD5
\* check succeeding.
C7_ScenarioA ==
  (/\ pc = "exited"
   /\ table.imageInfo = ScenarioA.imageInfo
   /\ table.dataBlocks = ScenarioA.dataBlocks
   /\ jigdo[1].localCopy /\ jigdo[1].numMirrors = 0
   /\ prior = << >>
   /\ ~envFail)
    => (/\ status(1) = COMPLETE
        /\ Slice(image, 5, 5) = Slice(Target, 5, 5)
        /\ exitCode = 0)

\* ------------------------------------------------------------------ C8
\* C8: Scenario B.  With two File parts, when a part's first fetch fails
\* and no part fails a second time, the part is ERROR once and the run ends
\* with both parts COMPLETE and the final MD5 check succeeding.
C8_ScenarioB ==
  (/\ pc = "exited"
   /\ ~envFail
   /\ \E p \in Parts : errCount[p] = 1
   /\ \A p \in Parts : errCount[p] <= 1)
    => (AllComplete /\ exitCode = 0)

\* ------------------------------------------------------------------ C9
NoNetworkFetch ==
  \A w \in Slots :
    ~(workerState[w].pc \in {"fetch", "publish"} /\ workerState[w].uri = "net")

\* C9 as stated: a second run over the output of a successful run leaves the
\* output byte-identical, recognises every part as already COMPLETE and
\* performs no network fetch.
C9_Original ==
  prior = Target
    => /\ image = prior
       /\ AfterVerify => AllComplete
       /\ NoNetworkFetch

\* C9 amended: a second run over the output of a successful run leaves the
\* output byte-identical, recognises every part that was not found in a local
\* directory as already COMPLETE, and performs no network fetch.
C9_Idempotent ==
  prior = Target
    => /\ image = prior
       /\ AfterVerify => \A p \in Parts :
                           jigdo[p].localMatch < 0 => status(p) = COMPLETE
       /\ NoNetworkFetch

\* A second run has ended in success after copying a local part again.
C9_Witness ==
  /\ prior = Target
  /\ pc = "exited"
  /\ exitCode = 0
  /\ \E p \in Parts : jigdo[p].localMatch >= 0 /\ status(p) = COMPLETE
  /\ \E p \in Parts : jigdo[p].localMatch < 0 /\ status(p) = COMPLETE

\* ------------------------------------------------------------------ C10
\* C10 as stated: the parts whose bytes are intact in the earlier output
\* are marked COMPLETE before dispatch and are never fetched again.
C10_Original ==
  \A p \in Parts :
    Intact(prior, p)
      => /\ AfterVerify => status(p) = COMPLETE
         /\ \A w \in Slots : workerState[w].chunk # p

\* C10 amended: when the earlier output has at least the image's length, the
\* parts that were not found in a local directory and whose bytes are intact
\* are marked COMPLETE before dispatch and are never fetched again.
C10_Resume ==
  \A p \in Parts :
    (/\ Len(prior) >= table.imageInfo.size
     /\ Intact(prior, p)
     /\ jigdo[p].localMatch < 0)
      => /\ AfterVerify => status(p) = COMPLETE
         /\ \A w \in Slots : workerState[w].chunk # p

\* An intact part was recognised while a damaged part is being fetched.
C10_Witness ==
  \E p, q \in Parts :
    /\ Len(prior) >= table.imageInfo.size
    /\ Intact(prior, p)
    /\ ~Intact(prior, q)
    /\ status(p) = COMPLETE
    /\ \E w \in Slots : workerState[w].chunk = q /\ workerState[w].pc = "fetch"

\* freadTemplateDesc() has returned.
AfterRead == tpc \in {"test", "accepted", "rejected"}

\* ------------------------------------------------------------------ C11
\* The Data and File entries of the table freadTemplateDesc() returned.
ParsedParts ==
  {[offset |-> parsed.table.dataBlocks[k].offset,
    size |-> parsed.table.dataBlocks[k].size] :
     k \in 1..Len(parsed.table.dataBlocks)}
    \cup {[offset |-> parsed.table.files[k].offset,
           size |-> parsed.table.files[k].size] :
            k \in 1..Len(parsed.table.files)}

\* C11: for every template the parser accepts, the Data and File entries
\* cover [0, imageInfo.size) exactly: every byte of the image is in one and
\* only one entry and no entry reaches beyond the image.
C11_ExactCover ==
  tpc = "accepted"
    => /\ \A o \in 0..(parsed.table.imageInfo.size - 1) :
            \E e \in ParsedParts :
              /\ e.offset <= o /\ o < e.offset + e.size
              /\ \A d \in ParsedParts :
                   (d.offset <= o /\ o < d.offset + d.size) => d = e
       /\ \A e \in ParsedParts :
            e.offset + e.size <= parsed.table.imageInfo.size

\* ------------------------------------------------------------------ C12
IsImageInfo(e) ==
  e.type \in {TEMPLATE_ENTRY_TYPE_IMAGE_INFO_OBSOLETE,
              TEMPLATE_ENTRY_TYPE_IMAGE_INFO}

\* C12: the parser accepts a DESC table only if it holds exactly one
\* ImageInfo or ImageInfoObsolete entry and that entry is the last one.
C12_OneImageInfoLast ==
  tpc = "accepted"
    => /\ Len(made.entries) >= 1
       /\ IsImageInfo(made.entries[Len(made.entries)])
       /\ \A k \in 1..(Len(made.entries) - 1) : ~IsImageInfo(made.entries[k])

\* ------------------------------------------------------------------ C13
\* C13: the parser rejects every template in which the four bytes at the
\* place the last six bytes point to are not "DESC", or in which the length
\* after them differs from the length in the last six bytes.
C13_HeaderAndLengths ==
  (AfterRead /\ (made.header # descHeader \/ made.first # made.last))
    => ~parsed.ok

\* A table of a data, a file and an image entry whose first length is one
\* more than its last was rejected.
C13_Witness ==
  /\ tpc = "rejected"
  /\ made.header = descHeader
  /\ made.first = 1
  /\ made.last = 0
  /\ made.entries = << [type |-> TEMPLATE_ENTRY_TYPE_DATA, size |-> 1],
                       [type |-> TEMPLATE_ENTRY_TYPE_FILE, size |-> 1],
                       [type |-> TEMPLATE_ENTRY_TYPE_IMAGE_INFO, size |-> 2] >>

\* ------------------------------------------------------------------ C14
\* C14: when an entry of the table has a type byte outside {1, 2, 3, 5, 6},
\* at any position, the parser returns failure, main() leaves with status 1
\* and the table does not reach the later phases.
C14_UnknownTypeRejected ==
  (/\ AfterRead
   /\ \E k \in 1..Len(made.entries) :
        made.entries[k].type \notin {1, 2, 3, 5, 6})
    => /\ ~parsed.ok
       /\ tpc # "accepted"
       /\ pc # "sort"
       /\ tpc = "rejected" => (pc = "exited" /\ exitCode = 1)

\* A table with the right header and lengths, whose second entry of three
\* has an unknown type, was rejected.
C14_Witness ==
  /\ tpc = "rejected"
  /\ made.header = descHeader
  /\ made.first = 0
  /\ made.last = 0
  /\ made.entries = << [type |-> TEMPLATE_ENTRY_TYPE_DATA, size |-> 1],
                       [type |-> 4, size |-> 1],
                       [type |-> TEMPLATE_ENTRY_TYPE_IMAGE_INFO, size |-> 2] >>

\* ------------------------------------------------------------------ C15
\* C15: the little-endian reader applied to six bytes b0..b5 returns the sum
\* of b_i * 2^(8i) as a 64-bit value with the upper 16 bits zero: each
\* 16-bit digit of the result is b_2k + 256 * b_2k+1.
C15_LittleEndianU48 ==
  tpc = "u48done"
    => parsed = << fp[1] + 256 * fp[2], fp[3] + 256 * fp[4],
                   fp[5] + 256 * fp[6], 0 >>

\* The encoding of 2^40 has been read as 2^40.
C15_Witness ==
  /\ tpc = "u48done"
  /\ fp = << 0, 0, 0, 0, 0, 1 >>
  /\ parsed = << 0, 0, 256, 0 >>

\* ------------------------------------------------------------------ C16
\* C16: when decompressMemToMem() fails on a chunk of the glue stream, or
\* produces a number of bytes other than the chunk's uncompressed length,
\* writeDataFromTemplate() returns false.
C16_ChunkLengthChecked ==
  (/\ tpc \in {"written", "idle"}
   /\ \E k \in 1..Len(parsed.seen) :
        parsed.seen[k].ret # parsed.seen[k].outBytes)
    => parsed.ret = "false"

\* ------------------------------------------------------------------ C17
\* No URI can be resolved for part p: its MD5 is not in the recipe, or its
\* server has no mirror and the part has no local match.
Unresolvable(p) ==
  \/ ~jigdo[p].known
  \/ jigdo[p].numMirrors = 0 /\ jigdo[p].localMatch < 0

\* C17: the worker of a part for which no URI can be resolved sets the
\* part to FATAL_ERROR and returns without mapping the output or calling
\* fetch(); the process is not killed on the way.
C17_NoUriFatal ==
  /\ \A w \in Slots :
       (/\ workerState[w].chunk # 0
        /\ Unresolvable(workerState[w].chunk)
        /\ workerState[w].pc \notin {"idle", "start"})
         => /\ status(workerState[w].chunk) = FATAL_ERROR
            /\ workerState[w].pc \in {"exit", "finished"}
            /\ workerState[w].uri = "NULL"
  /\ exitCode # -1

\* ------------------------------------------------------------------ C18
\* The parts that wait for a worker.
Waiting == {q \in Parts : status(q) \in {NOT_STARTED, ERROR, LOCAL_COPY}}

\* The for loop takes its step at a slot that gets a new part: the slot is
\* empty, or its part is COMPLETE or ERROR.
SlotSelects ==
  /\ pc = "slot"
  /\ pc' # "exited"
  /\ (pc' # pc \/ slot' # slot)
  /\ \/ workerState[slot].chunk = 0
     \/ status(workerState[slot].chunk) \in {COMPLETE, ERROR}

\* C18: when a part waits, selectChunk() picks the waiting part of lowest
\* index, whatever was picked before, sets that part to ASSIGNED, returns
\* it, and leaves the status of every other part as it was.
C18_SelectLowestWaiting ==
  [][(SlotSelects /\ Waiting # {})
       => \E c \in Waiting :
            /\ \A q \in Waiting : c <= q
            /\ table' = [table EXCEPT !.files[c].status = ASSIGNED]
            /\ workerState'[slot].chunk = c]_vars

\* A part in ERROR was picked again although a later part was waiting.
C18_Witness ==
  \E w \in Slots :
    /\ workerState[w].pc = "start"
    /\ workerState[w].chunk = 1
    /\ status(1) = ASSIGNED
    /\ status(2) = NOT_STARTED
    /\ \E v \in Slots : v # w /\ workerState[v].chunk = 1
                              /\ workerState[v].pc = "finished"

\* ------------------------------------------------------------------ C19
\* C19: when no part waits, selectChunk() returns NULL and writes nothing:
\* the table is as it was and so is the memory past its last entry.
C19_NoWaitingNoWrite ==
  [][(SlotSelects /\ Waiting = {})
       => /\ table' = table
          /\ pastEnd' = pastEnd
          /\ workerState'[slot].chunk = 0]_vars

\* ------------------------------------------------------------------ C20
\* The changes of status the fetch phase may make.
Transitions ==
  ({NOT_STARTED, ERROR, LOCAL_COPY} \X {ASSIGNED})
    \cup {<< ASSIGNED, IN_PROGRESS >>, << IN_PROGRESS, COMPLETE >>,
          << IN_PROGRESS, ERROR >>}
    \cup ((commitStatus \ {COMPLETE, FATAL_ERROR}) \X {FATAL_ERROR})

\* C20: once verifyPartial() has run, every change of a part's status is
\* one of Transitions; a part that is COMPLETE or FATAL_ERROR never changes.
C20_TransitionGraph ==
  [][pc \notin {"local", "verify"}
       => \A p \in Parts :
            table'.files[p].status # table.files[p].status
              => << table.files[p].status, table'.files[p].status >>
                   \in Transitions]_vars

\* With no earlier output, one part has been fetched and is COMPLETE while
\* another has failed and is in ERROR.
C20_Witness ==
  /\ prior = << >>
  /\ \E p, q \in Parts : status(p) = COMPLETE /\ status(q) = ERROR

\* ------------------------------------------------------------------ C21
\* partsRemain() has returned.
AfterRemain == tpc \in {"remained", "idle"}

\* The parts at which the scan of partsRemain() stops: the first part from
\* the cursor made on, among the parts the for loop looks at (all but the
\* last of the table), that is not COMPLETE.
ScanStops ==
  {p \in (made + 1)..(numFiles - 1) :
     /\ status(p) # COMPLETE
     /\ \A q \in (made + 1)..(p - 1) : status(q) = COMPLETE}

\* C21: partsRemain() returns a negative number when its scan comes upon a
\* part that is FATAL_ERROR and a positive number when it comes upon a part
\* that is neither COMPLETE nor FATAL_ERROR, so that the sign tells the two
\* apart.
C21_SignTellsFatal ==
  AfterRemain
    => \A p \in ScanStops :
         IF status(p) = FATAL_ERROR THEN parsed.ret < 0 ELSE parsed.ret > 0

\* ------------------------------------------------------------------ C22
\* C22: the cursor of partsRemain() never moves back and never exceeds the
\* number of parts, and every part before the cursor is COMPLETE, whatever the
\* workers store between two calls.
C22_CursorOverCompletePrefix ==
  /\ [][contiguousComplete' >= contiguousComplete]_vars
  /\ [](/\ contiguousComplete <= numFiles
        /\ \A p \in Parts : p <= contiguousComplete => status(p) = COMPLETE)

\* The workers have fetched the first two of three parts and the cursor has
\* moved on to the second.
C22_Witness ==
  /\ prior = << >>
  /\ numFiles = 3
  /\ contiguousComplete = 1
  /\ status(1) = COMPLETE
  /\ status(2) = COMPLETE

\* ------------------------------------------------------------------ C23
\* The pages of the output file that hold a byte of the part made.
PartPages ==
  {b \div PageSize : b \in made.offset..(made.offset + made.size - 1)}

\* C23: when a worker has stored COMPLETE for a part, its msync() has
\* returned and was asked to write back every page that holds a byte of the
\* part, at every offset, page-aligned or not.
C23_SyncedBeforeComplete ==
  (made.who = "fetch_worker" /\ parsed = COMPLETE)
    => /\ tpc = "returned"
       /\ PartPages \subseteq synced

\* ------------------------------------------------------------------ C24
\* C24: when a worker returns, with the part COMPLETE, ERROR or FATAL_ERROR,
\* and when verifyPartial() is done with a part, no page of the window the
\* thread mapped is still mapped.
C24_WindowReleased == tpc = "returned" => mapped = {}

\* ------------------------------------------------------------------ C25
\* C25: while a worker thread exists, no status of a part is read or written
\* without tableLock being held, be it by pfetch(), by a worker or by the
\* handler of the status-dump signal.
C25_StatusUnderLock == unlocked = FALSE

\* ------------------------------------------------------------------ C26
\* C26: verifyPartial() runs before any thread is created.  With
\* existingFile set and no failure, the parts that are not LOCAL_COPY and
\* whose bytes in the file hash to their md5Sum become COMPLETE and every
\* other part keeps its status; when it fails on the way, no other part than
\* those has changed; with existingFile not set no status changes.
C26_Recovery ==
  [][pc = "verify"
       => /\ \A w \in Slots : workerState[w] = EmptySlot
          /\ ~table.existingFile => table' = table
          /\ \A p \in Parts :
               LET good == /\ table.existingFile
                           /\ status(p) # LOCAL_COPY
                           /\ Intact(image, p) IN
               /\ table'.files[p].status # status(p)
                    => (good /\ table'.files[p].status = COMPLETE)
               /\ (good /\ pc' = "remain") => table'.files[p].status = COMPLETE]_vars

\* verifyPartial() has just gone through an earlier output: it has marked an
\* intact part COMPLETE and has left a part found locally, intact as well,
\* LOCAL_COPY.
C26_Witness ==
  /\ pc = "remain"
  /\ table.existingFile
  /\ \A w \in Slots : workerState[w] = EmptySlot
  /\ \E p, q \in Parts :
       /\ status(p) = COMPLETE
       /\ status(q) = LOCAL_COPY
       /\ Intact(image, q)

\* ------------------------------------------------------------------ C27
\* The main thread takes a step of its for loop.
SlotStep ==
  /\ pc = "slot"
  /\ pc' # "exited"
  /\ (pc' # pc \/ slot' # slot)

\* Slot w has no part, or a part that is COMPLETE or ERROR.
Free(w) ==
  \/ workerState[w].chunk = 0
  \/ status(workerState[w].chunk) \in {COMPLETE, ERROR}

\* C27: a step of the for loop changes no slot but the one it is at, and
\* that one only when it is empty or its part is COMPLETE or ERROR; a slot
\* whose part is ASSIGNED, IN_PROGRESS or FATAL_ERROR is left as it is.  A
\* thread is created in a slot only after the thread that was there has
\* returned and been joined, and a slot with a part always has a thread that
\* was not joined yet, so that no thread is joined twice.
C27_SlotReuse ==
  /\ [][SlotStep
          => /\ \A w \in Slots \ {slot} : workerState'[w] = workerState[w]
             /\ ~Free(slot)
                  => (workerState'[slot] = workerState[slot] /\ table' = table)
             /\ workerState'[slot] # workerState[slot]
                  => /\ workerState[slot].pc \in {"idle", "finished"}
                     /\ workerState[slot].pc = "idle"
                          <=> workerState[slot].chunk = 0]_vars
  /\ [](InLoop => \A w \in Slots :
                    workerState[w].chunk # 0 => workerState[w].pc # "idle")

\* The only slot has fetched the first part and, its thread joined, has been
\* given the second.
C27_Witness ==
  /\ numWorkers = 1
  /\ prior = << >>
  /\ status(1) = COMPLETE
  /\ workerState[1].chunk = 2
  /\ workerState[1].pc = "start"

\* ------------------------------------------------------------------ C28
\* C28 as stated: no two slots that have a part have the same part.
C28_Original ==
  \A w1, w2 \in Slots :
    (w1 # w2 /\ workerState[w1].chunk # 0)
      => workerState[w1].chunk # workerState[w2].chunk

\* C28 amended: no two threads are at work on the same part.  When two slots
\* have the same part, the thread of one of them has stored its result for
\* the part and is returning or has returned; the slot keeps the part until
\* the for loop comes back to it.
C28_ExclusiveBorrow ==
  \A w1, w2 \in Slots :
    (/\ w1 # w2
     /\ workerState[w1].chunk # 0
     /\ workerState[w1].chunk = workerState[w2].chunk)
      => \/ ~Fetching(w1) /\ workerState[w1].pc \in {"exit", "finished"}
         \/ ~Fetching(w2) /\ workerState[w2].pc \in {"exit", "finished"}

\* The thread of one slot has failed on a part and returned; another slot
\* has been given the part, has fetched it and is about to store COMPLETE.
C28_Witness ==
  \E w1, w2 \in Slots :
    /\ w1 # w2
    /\ workerState[w1].chunk = workerState[w2].chunk
    /\ workerState[w1].pc = "finished"
    /\ workerState[w2].pc = "publish"
    /\ workerState[w2].ok

\* ------------------------------------------------------------------ C29
\* writeDataFromTemplate() has returned, or the process was ended inside it.
AfterGlue == tpc \in {"written", "idle"}

\* C29: writeDataFromTemplate() returns true only if doneSize equals
\* totalDecompressedSize when the DESC table is reached; when the stream
\* gave fewer or more bytes it returns false and no byte of the output file
\* has changed.
C29_CursorChecked ==
  AfterGlue
    => /\ parsed.ret = "true"
            => parsed.doneSize = totalDecompressedSize(table.dataBlocks)
       /\ parsed.doneSize # totalDecompressedSize(table.dataBlocks)
            => (parsed.ret = "false" /\ image = prior)

\* ------------------------------------------------------------------ C30
\* The number of buffer bytes that belong to the data blocks before block i.
RECURSIVE SizesBefore(_)
SizesBefore(i) ==
  IF i <= 1 THEN 0 ELSE table.dataBlocks[i - 1].size + SizesBefore(i - 1)

\* Byte k (counted from 1) of the output file lies in a data block.
InDataBlock(k) ==
  \E i \in 1..Len(table.dataBlocks) :
    /\ k - 1 >= table.dataBlocks[i].offset
    /\ k - 1 < table.dataBlocks[i].offset + table.dataBlocks[i].size

\* C30: after writeDataFromTemplate() returned true, the bytes of the output
\* file at every data block are the bytes of the buffer that start at the
\* sum of the sizes of the blocks before it, and every byte outside the data
\* blocks is what it was before the call.
C30_GlueCopied ==
  (AfterGlue /\ parsed.ret = "true")
    => /\ \A i \in 1..Len(table.dataBlocks) :
            Slice(image, table.dataBlocks[i].offset, table.dataBlocks[i].size)
              = Slice(parsed.decompressed, SizesBefore(i),
                      table.dataBlocks[i].size)
       /\ \A k \in 1..Len(image) : ~InDataBlock(k) => image[k] = prior[k]

\* A stream of two chunks of one byte each was written into an earlier file:
\* the two data blocks hold the bytes of the stream, the file parts between
\* them are as they were.
C30_Witness ==
  /\ AfterGlue
  /\ parsed.ret = "true"
  /\ Len(parsed.seen) = 2
  /\ parsed.decompressed = << TargetByte(0), TargetByte(1) >>
  /\ prior = [k \in 1..4 |-> JunkByte]
  /\ image = << TargetByte(0), JunkByte, TargetByte(1), JunkByte >>

\* ------------------------------------------------------------------ C31
\* The intervals of the Data blocks and of the File parts of the table.
Intervals ==
  {[kind |-> "data", index |-> i, offset |-> table.dataBlocks[i].offset,
    size |-> table.dataBlocks[i].size] : i \in 1..Len(table.dataBlocks)}
    \cup {[kind |-> "file", index |-> p, offset |-> table.files[p].offset,
           size |-> table.files[p].size] : p \in Parts}

\* Byte k (counted from 1) of the output file lies in the interval of part p.
InPart(k, p) ==
  /\ k - 1 >= table.files[p].offset
  /\ k - 1 < table.files[p].offset + table.files[p].size

\* C31: no byte of the image has two writers.  No worker thread exists
\* before writeDataFromTemplate() has returned; a step that changes the
\* output file after that is the fetch() of one worker and changes bytes of
\* that worker's part only; the intervals of the parts and data blocks are
\* pairwise disjoint; and no two workers are inside fetch() for the same part.
C31_OneWriterPerByte ==
  /\ [](pc \in {"open", "glue"} => \A w \in Slots : workerState[w] = EmptySlot)
  /\ [][image' # image
          => \/ pc \in {"open", "glue"}
             \/ \E w \in Slots :
                  /\ workerState[w].pc = "fetch"
                  /\ workerState'[w].pc = "publish"
                  /\ Len(image') = Len(image)
                  /\ \A k \in 1..Len(image) :
                       image'[k] # image[k] => InPart(k, workerState[w].chunk)]_vars
  /\ [](\A x, y \in Intervals :
          x # y => (x.offset + x.size <= y.offset \/ y.offset + y.size <= x.offset))
  /\ [](\A w1, w2 \in Slots :
          (w1 # w2 /\ workerState[w1].pc = "fetch" /\ workerState[w2].pc = "fetch")
            => workerState[w1].chunk # workerState[w2].chunk)

\* Two workers have each written the bytes of a part of their own and are
\* about to store COMPLETE.
C31_Witness ==
  \E w1, w2 \in Slots :
    /\ w1 # w2
    /\ workerState[w1].chunk # workerState[w2].chunk
    /\ workerState[w1].pc = "publish" /\ workerState[w1].ok
    /\ workerState[w2].pc = "publish" /\ workerState[w2].ok
    /\ prior = << >>

\* ------------------------------------------------------------------ C32
\* C32: after the sort the parts are in non-increasing order of size, for
\* all sizes below 2^48, and the sorted array holds the records of the
\* unsorted one, each with its own size, offset, MD5 and status.
C32_SortedBySize ==
  tpc = "sorted"
    => /\ \A i, j \in 1..Len(parsed) :
            i < j => U64Geq(parsed[i].size, parsed[j].size)
       /\ Len(parsed) = Len(made)
       /\ \A k \in 1..Len(made) :
            \E i \in 1..Len(parsed) : parsed[i] = made[k]

\* ------------------------------------------------------------------ C33
\* The File entries and the ImageInfo entries of the file that was made,
\* in the order of the file.
IsFileEntry(e) ==
  e.type \in {TEMPLATE_ENTRY_TYPE_FILE_OBSOLETE, TEMPLATE_ENTRY_TYPE_FILE}

IsImageInfoEntry(e) ==
  e.type \in {TEMPLATE_ENTRY_TYPE_IMAGE_INFO_OBSOLETE,
              TEMPLATE_ENTRY_TYPE_IMAGE_INFO}

MadeFiles == SelectSeq(made.entries, IsFileEntry)

MadeImageInfos == SelectSeq(made.entries, IsImageInfoEntry)

\* C33: in a table the parser accepts, the rsync block length is 0 when the
\* image info came from the obsolete variant, and the initial rsync sum of a
\* part is 0 when the part came from the obsolete File variant, whatever
\* entries precede them.
C33_ObsoleteFieldsZero ==
  (AfterRead /\ parsed.ok)
    => /\ (/\ MadeImageInfos # << >>
           /\ MadeImageInfos[Len(MadeImageInfos)].type
                = TEMPLATE_ENTRY_TYPE_IMAGE_INFO_OBSOLETE)
            => parsed.table.imageInfo.rsync64SumBlockLen = U64Zero
       /\ \A k \in 1..Len(parsed.table.files) :
            (/\ k <= Len(MadeFiles)
             /\ MadeFiles[k].type = TEMPLATE_ENTRY_TYPE_FILE_OBSOLETE)
              => parsed.table.files[k].rsync64SumInitialBlock = U64Zero

\* ------------------------------------------------------------------ C34
\* C34: the parser accepts a DESC table only if its entries fill exactly the
\* bytes between the first length and the last: a table whose last entry
\* runs into the last length, or whose length is too small to hold the
\* header, the first length and the last length, is rejected.
C34_EntriesFillTable ==
  (AfterRead /\ made.overlap > 0) => ~parsed.ok

\* ------------------------------------------------------------------ C35
\* C35: when md5Fd() fails in the final check and returns the all-ones
\* digest, the run reports failure, whatever MD5 the template's ImageInfo
\* entry carries.
C35_SentinelIsFailure ==
  (pc \in {"done", "exited"} /\ fileChecksum = md5FdFailed)
    => /\ ~ret
       /\ pc = "exited" => exitCode # 0

\* ------------------------------------------------------------------ C36
\* C36: when pfetch computes the final MD5, and when it frees workerState
\* and returns, every thread it created has returned from fetch_worker and
\* has been joined: no thread is running or waits to be joined.
C36_ThreadsJoinedAtEnd ==
  pc \in {"md5", "done"}
    => \A w \in Slots :
         ~ThreadAlive(w) /\ workerState[w].pc # "finished"

\* ------------------------------------------------------------------ C37
\* No part is FATAL_ERROR.
NoFatalError == \A p \in Parts : status(p) # FATAL_ERROR

\* No worker has a failed fetch to report.
NoFailedFetch ==
  \A w \in Slots : workerState[w].pc = "publish" => workerState[w].ok

\* pfetch is past its dispatch loop, or the process has ended.
LoopLeft == pc \in {"md5", "done", "exited"}

\* C37: with one worker or more, if no part ever becomes FATAL_ERROR and
\* the fetches fail only finitely often, then under fair scheduling pfetch
\* eventually leaves its dispatch loop.
C37_Termination ==
  ([]NoFatalError /\ <>[]NoFailedFetch) => <>LoopLeft

\* The loop was left with no part in FATAL_ERROR after a worker fetched a
\* part into a new output.
C37_Witness ==
  /\ pc = "md5"
  /\ NoFatalError
  /\ prior = << >>
  /\ \E w \in Slots : workerState[w].chunk # 0

\* ------------------------------------------------------------------ C38
\* The worker threads that run, and the parts a worker was handed or is
\* fetching.
LiveThreads == {w \in Slots : ThreadAlive(w)}

HandedOut == {p \in Parts : status(p) \in {ASSIGNED, IN_PROGRESS}}

\* C38: with numWorkers slots, at every moment at most numWorkers worker
\* threads run and at most numWorkers parts are ASSIGNED or IN_PROGRESS.
C38_AtMostNWorkers ==
  /\ Cardinality(LiveThreads) <= numWorkers
  /\ Cardinality(HandedOut) <= numWorkers

\* Two workers run, each on a part of its own that is ASSIGNED or
\* IN_PROGRESS, while a third part waits.
C38_Witness ==
  /\ numWorkers = 2
  /\ Cardinality(LiveThreads) = 2
  /\ Cardinality(HandedOut) = 2
  /\ \E p \in Parts : status(p) = NOT_STARTED

\* ------------------------------------------------------------------ C39
\* C39: in pfetch() of pigdo.c the main thread never locks workerLock while
\* it holds it and never unlocks it while it does not hold it, on any path
\* through the dispatch loop, so it never blocks on its own lock.
C39_WorkerLockBalanced ==
  /\ parsed = "none"
  /\ pc # "blocked"

====
